---- MODULE Spec2Model ----
(***************************************************************************)
(* Runtime type descriptors of typeDecoratorJs (src/src/Type.js): the      *)
(* memoizing factories, the validity checks and the write-intercepting     *)
(* wrappers, as a state machine over the registries (the static #known     *)
(* maps) and the objects wrapped by editValue.                             *)
(***************************************************************************)
EXTENDS Integers, Sequences, FiniteSets, TLC

VARIABLES
    types,       \* every Type instance constructed so far; a descriptor is its index
    typeKnown,   \* Type.#known beyond the nine built-in entries (constructor hints)
    primKnown,   \* Primitive.#known
    instKnown,   \* Instance.#known
    oneOfKnown,  \* OneOf.#known, in insertion order
    arrayKnown,  \* ArrayOf.#known
    tupleKnown,  \* TupleOf.#known, one entry per path that ends in #leaf
    recordKnown, \* RecordOf.#known, in insertion order
    nullKnown,   \* Nullable.#known
    funcKnown,   \* TypedFunction.#known, in insertion order
    calls,       \* the factory calls made so far, with what each returned
    checked,     \* the last isValid call: descriptor, value and outcome
    handler,     \* the descriptor whose editValue wrapped the object, 0 before
    target,      \* the object behind the proxy
    assigned,    \* the last assignment made through the proxy, and its outcome
    called,      \* the last call of a wrapped typed function, and its outcome
    initialized, \* the last initialize call: descriptor and the value it gave
    edited,      \* the last editValue call: descriptor, value and what it gave
    checkedAt,   \* the last isValidAt call: descriptor, key, value and outcome
    field        \* an accessor decorated with typed(...): descriptor, stored value

regVars == <<types, typeKnown, primKnown, instKnown, oneOfKnown, arrayKnown,
             tupleKnown, recordKnown, nullKnown, funcKnown>>
useVars == <<checked, handler, target, assigned, called, initialized, edited,
            checkedAt, field>>
vars == <<types, typeKnown, primKnown, instKnown, oneOfKnown, arrayKnown,
          tupleKnown, recordKnown, nullKnown, funcKnown, calls,
          checked, handler, target, assigned, called, initialized, edited,
          checkedAt, field>>

(***************************************************************************)
(* JavaScript values.  Every value is a record whose field names tell its  *)
(* kind, so that any two values can be compared.                           *)
(***************************************************************************)
Num(n) == [num |-> n]
Str(s) == [str |-> s]
Bool(b) == [bool |-> b]
Null == [nul |-> TRUE]
Undefined == [und |-> TRUE]
Arr(s) == [arr |-> s]                    \* an array, elements 1..Len(s) for indices 0..
Obj(kvs) == [obj |-> kvs]                \* a plain object: own properties <<[k, v], ...>>
KV(k, v) == [k |-> k, v |-> v]           \* in insertion order
Proxied(d, v) == [pxy |-> d, tgt |-> v]  \* new Proxy(v, handler of descriptor d)

IsNum(v) == "num" \in DOMAIN v
IsStr(v) == "str" \in DOMAIN v
IsBool(v) == "bool" \in DOMAIN v
IsNull(v) == "nul" \in DOMAIN v
IsUndefined(v) == "und" \in DOMAIN v
IsProxy(v) == "pxy" \in DOMAIN v

RECURSIVE Target(_)
\* the object a (possibly nested) proxy forwards its reads to
Target(v) == IF IsProxy(v) THEN Target(v.tgt) ELSE v

IsArr(v) == "arr" \in DOMAIN Target(v)
IsObj(v) == "obj" \in DOMAIN Target(v)

\* typeof value
TypeofValue(v) ==
    IF IsNum(v) THEN "number"
    ELSE IF IsStr(v) THEN "string"
    ELSE IF IsBool(v) THEN "boolean"
    ELSE IF IsUndefined(v) THEN "undefined"
    ELSE IF "sym" \in DOMAIN v THEN "symbol"
    ELSE IF "fun" \in DOMAIN v THEN "function"
    ELSE "object"

(***************************************************************************)
(* Type hints.  Objects and functions written as literals carry the        *)
(* identity (ref) of the evaluation that created them: two evaluations of  *)
(* the same literal are two objects.                                       *)
(***************************************************************************)
Mk(name) == [mk |-> name]                \* null, undefined, Boolean, Number, ...
T(id) == [ty |-> id]                     \* an instance of Type
Lit(v) == [lit |-> v]                    \* a bare number, string or boolean
ArrLit(r, hs) == [ref |-> r, tup |-> hs] \* an array literal of hints
ObjLit(r, kh) == [ref |-> r, rec |-> kh] \* a plain object literal, <<[k, h], ...>>
Inst(r, c) == [ref |-> r, inst |-> c]    \* an object whose prototype is class c
Cls(c) == [cls |-> c]                    \* a class (constructor function)
Ret(r, h) == [ref |-> r, ret |-> h]      \* an arrow function _ => h
KH(k, h) == [k |-> k, h |-> h]

IsMk(h) == "mk" \in DOMAIN h
IsT(h) == "ty" \in DOMAIN h
IsLit(h) == "lit" \in DOMAIN h
IsArrLit(h) == "tup" \in DOMAIN h
IsObjLit(h) == "rec" \in DOMAIN h
IsInst(h) == "inst" \in DOMAIN h
IsCls(h) == "cls" \in DOMAIN h
IsRet(h) == "ret" \in DOMAIN h

\* typeof hint
TypeofHint(h) ==
    IF IsMk(h) THEN (IF h.mk = "null" THEN "object"
                     ELSE IF h.mk = "undefined" THEN "undefined" ELSE "function")
    ELSE IF IsLit(h) THEN TypeofValue(h.lit)
    ELSE IF IsCls(h) \/ IsRet(h) THEN "function"
    ELSE "object"

(***************************************************************************)
(* The built-in descriptors: Type.#null ... Type.#function, and the        *)
(* initial content of Type.#known.                                         *)
(***************************************************************************)
BaseType(name) == [kind |-> "Type", name |-> name]
BuiltinNames == <<"null", "undefined", "boolean", "number", "string", "object",
                  "array", "symbol", "function">>
BuiltinMarkers == <<"null", "undefined", "Boolean", "Number", "String", "Object",
                    "Array", "Symbol", "Function">>
Builtins == [i \in 1..Len(BuiltinNames) |-> BaseType(BuiltinNames[i])]
\* Type.#known.get(marker)
Type_known(name) == CHOOSE i \in 1..Len(BuiltinMarkers) : BuiltinMarkers[i] = name
Type_null == Type_known("null")
Type_undefined == Type_known("undefined")
Type_number == Type_known("Number")
Type_string == Type_known("String")

(***************************************************************************)
(* Maps (insertion ordered, as JavaScript's): sequences of [key, val].     *)
(***************************************************************************)
MapHas(m, k) == \E i \in 1..Len(m) : m[i].key = k
MapGet(m, k) == m[CHOOSE i \in 1..Len(m) : m[i].key = k].val
MapSet(m, k, v) == Append(m, [key |-> k, val |-> v])

\* The registries as one value, threaded through the factories.
Reg == [types |-> types, typeKnown |-> typeKnown, primKnown |-> primKnown,
        instKnown |-> instKnown, oneOfKnown |-> oneOfKnown,
        arrayKnown |-> arrayKnown, tupleKnown |-> tupleKnown,
        recordKnown |-> recordKnown, nullKnown |-> nullKnown,
        funcKnown |-> funcKnown]

\* What a factory call gives: the registries after it, and the descriptor it
\* returned (ok) or the fact that it threw (~ok).
Returned(R, t) == [reg |-> R, ok |-> TRUE, t |-> t]
Thrown(R) == [reg |-> R, ok |-> FALSE, t |-> 0]

\* new X(...): the instance is added to the heap of descriptors
New(R, desc) == [R EXCEPT !.types = Append(@, desc)]
NewId(R) == Len(R.types) + 1

(***************************************************************************)
(* Own enumerable string-keyed properties of a hint that is an object, as  *)
(* Object.entries / Object.keys / Object.getOwnPropertyNames see them.     *)
(* A Type instance keeps its state in private fields and has none.         *)
(***************************************************************************)
IndexKeys == <<"0", "1", "2", "3">>
RECURSIVE ArrayEntries(_, _)
ArrayEntries(hs, i) ==
    IF i > Len(hs) THEN <<>> ELSE <<KH(IndexKeys[i], hs[i])>> \o ArrayEntries(hs, i + 1)
Entries(h) ==
    IF IsObjLit(h) THEN h.rec
    ELSE IF IsArrLit(h) THEN ArrayEntries(h.tup, 1)
    ELSE <<>>
\* obj[key]: undefined when obj has no such property
HintAt(h, key) ==
    LET es == Entries(h)
    IN  IF \E i \in 1..Len(es) : es[i].k = key
        THEN es[CHOOSE i \in 1..Len(es) : es[i].k = key].h
        ELSE Mk("undefined")

(***************************************************************************)
(* deepEqual(obj1, obj2), Type.js 39-57.  "throw" is the native TypeError  *)
(* of Object.entries(null).                                                *)
(***************************************************************************)
RECURSIVE deepEqual(_, _), deepEqualKeys(_, _, _)
deepEqual(obj1, obj2) ==
    IF obj1 = obj2 THEN "true"
    ELSE IF TypeofHint(obj1) # TypeofHint(obj2) THEN "false"
    ELSE IF TypeofHint(obj1) = "object"
    THEN IF obj1 = Mk("null") \/ obj2 = Mk("null") THEN "throw"
         ELSE IF Len(Entries(obj1)) # Len(Entries(obj2)) THEN "false"
         ELSE deepEqualKeys(obj1, obj2, 1)
    ELSE "true"
\* for (const key of Object.keys(obj1)) if (! deepEqual(obj1[key], obj2[key])) return false
deepEqualKeys(obj1, obj2, i) ==
    IF i > Len(Entries(obj1)) THEN "true"
    ELSE LET e == Entries(obj1)[i]
             r == deepEqual(e.h, HintAt(obj2, e.k))
         IN  IF r = "true" THEN deepEqualKeys(obj1, obj2, i + 1) ELSE r

(***************************************************************************)
(* ComparableSet, Type.js 16-34.  A set is the sequence of its members in  *)
(* insertion order, without repetition.                                    *)
(***************************************************************************)
Members(s) == {s[i] : i \in 1..Len(s)}
RECURSIVE ComparableSet(_)
\* new ComparableSet(array): later repetitions of a member are dropped
ComparableSet(a) ==
    IF a = <<>> THEN <<>>
    ELSE LET front == ComparableSet(SubSeq(a, 1, Len(a) - 1))
             last == a[Len(a)]
         IN  IF last \in Members(front) THEN front ELSE Append(front, last)
\* a mutation: equality that also compares the insertion order
ComparableSet_equals_ordered(this, otherSet) == this = otherSet
ComparableSet_equals(this, otherSet) ==
    /\ Len(this) = Len(otherSet)
    /\ \A i \in 1..Len(this) : this[i] \in Members(otherSet)

(***************************************************************************)
(* The factories.  Each takes the registries and gives the registries      *)
(* after the call with the descriptor returned.                            *)
(***************************************************************************)
Primitive_getFor(R, value) ==
    IF MapHas(R.primKnown, value) THEN Returned(R, MapGet(R.primKnown, value))
    ELSE Returned([New(R, [kind |-> "Primitive", value |-> value])
                      EXCEPT !.primKnown = MapSet(@, value, NewId(R))], NewId(R))

Instance_getFor(R, value) ==
    IF MapHas(R.instKnown, value) THEN Returned(R, MapGet(R.instKnown, value))
    ELSE Returned([New(R, [kind |-> "Instance", value |-> value])
                      EXCEPT !.instKnown = MapSet(@, value, NewId(R))], NewId(R))

\* a mutation: the lookup of a known tuple never finds its leaf
TupleOf_known_miss(R, hs) == FALSE
\* val?.has(this.#leaf) after walking the layered maps along the raw hints
TupleOf_known(R, hs) == MapHas(R.tupleKnown, hs)

RECURSIVE type(_, _), Type_getFor(_, _), typeEach(_, _, _)
RECURSIVE OneOf_members(_, _, _), OneOf_getFor(_, _)
RECURSIVE TupleOf_getFor(_, _), RecordOf_new(_, _, _, _), RecordOf_scan(_, _, _)
RECURSIVE RecordOf_getFor(_, _)

\* types.map(t => type(t)), left to right; stops at the first call that throws.
\* typeEach_next takes r, what type(t) gave for the next member
typeEach_next(r, hs, acc) ==
    IF r.ok THEN typeEach(r.reg, hs, Append(acc, r.t))
    ELSE [reg |-> r.reg, ok |-> FALSE, ts |-> acc]
typeEach(R, hs, acc) ==
    IF Len(acc) = Len(hs) THEN [reg |-> R, ok |-> TRUE, ts |-> acc]
    ELSE typeEach_next(type(R, <<hs[Len(acc) + 1]>>), hs, acc)

\* export function type(...typeHints); oneOf(...typeHints) is the same function
type(R, typeHints) ==
    IF Len(typeHints) > 1 THEN OneOf_getFor(R, typeHints)
    ELSE Type_getFor(R, IF Len(typeHints) = 0 THEN Mk("null") ELSE typeHints[1])

Type_getFor(R, typeHint) ==
    IF IsT(typeHint) THEN Returned(R, typeHint.ty)
    ELSE IF IsMk(typeHint) THEN Returned(R, Type_known(typeHint.mk))
    ELSE IF MapHas(R.typeKnown, typeHint) THEN Returned(R, MapGet(R.typeKnown, typeHint))
    ELSE IF TypeofHint(typeHint) = "object"
    THEN IF IsArrLit(typeHint) THEN TupleOf_getFor(R, typeHint.tup)
         ELSE IF IsObjLit(typeHint) THEN RecordOf_getFor(R, typeHint)
         ELSE Instance_getFor(R, typeHint)
    ELSE IF TypeofHint(typeHint) = "function"
    THEN Returned([New(R, [kind |-> "InstanceOf", fn |-> typeHint])
                      EXCEPT !.typeKnown = MapSet(@, typeHint, NewId(R))], NewId(R))
    ELSE Primitive_getFor(R, typeHint.lit)

\* types.map(t => t instanceof OneOf ? t.#subTypes : type(t)).flat().
\* OneOf_members_next takes r, what type(t) gave for the next hint
OneOf_members_next(r, hs, acc) ==
    IF r.ok THEN OneOf_members(r.reg, Tail(hs), Append(acc, r.t))
    ELSE [reg |-> r.reg, ok |-> FALSE, ts |-> acc]
OneOf_members(R, hs, acc) ==
    IF hs = <<>> THEN [reg |-> R, ok |-> TRUE, ts |-> acc]
    ELSE IF IsT(Head(hs)) /\ R.types[Head(hs).ty].kind = "OneOf"
    THEN OneOf_members(R, Tail(hs), acc \o R.types[Head(hs).ty].subTypes)
    ELSE OneOf_members_next(type(R, <<Head(hs)>>), hs, acc)

\* the set of one, the scan of OneOf.#known, or a new OneOf
OneOf_known(R, set) ==
    LET found == {i \in 1..Len(R.oneOfKnown) : ComparableSet_equals(set, R.oneOfKnown[i].key)}
    IN  IF Len(set) = 1 THEN Type_getFor(R, T(set[1]))
        ELSE IF found # {}
        THEN Returned(R, R.oneOfKnown[CHOOSE i \in found : \A j \in found : i <= j].val)
        ELSE Returned([New(R, [kind |-> "OneOf", subTypes |-> set])
                          EXCEPT !.oneOfKnown = MapSet(@, set, NewId(R))], NewId(R))
\* m is what the flattening of the hints gave
OneOf_lookup(m) ==
    IF ~m.ok THEN Thrown(m.reg) ELSE OneOf_known(m.reg, ComparableSet(m.ts))
OneOf_getFor(R, hs) == OneOf_lookup(OneOf_members(R, hs, <<>>))

\* r is what type(...typeHints) gave
ArrayOf_lookup(r) ==
    IF ~r.ok THEN Thrown(r.reg)
    ELSE IF MapHas(r.reg.arrayKnown, r.t) THEN Returned(r.reg, MapGet(r.reg.arrayKnown, r.t))
    ELSE Returned([New(r.reg, [kind |-> "ArrayOf", type |-> r.t])
                      EXCEPT !.arrayKnown = MapSet(@, r.t, NewId(r.reg))], NewId(r.reg))
ArrayOf_getFor(R, hs) == ArrayOf_lookup(type(R, hs))

\* the constructor resolves the members (this.#types = types.map(t => type(t)))
\* before the leaf is set; r is what the map gave
TupleOf_new(r, hs) ==
    IF ~r.ok THEN Thrown(r.reg)
    ELSE Returned([New(r.reg, [kind |-> "TupleOf", types |-> r.ts])
                      EXCEPT !.tupleKnown = MapSet(@, hs, NewId(r.reg))], NewId(r.reg))
TupleOf_getFor(R, hs) ==
    IF TupleOf_known(R, hs) THEN Returned(R, MapGet(R.tupleKnown, hs))
    ELSE TupleOf_new(typeEach(R, hs, <<>>), hs)

\* new RecordOf(shape): acc[key] = type(types[key]) for each own key.
\* RecordOf_new_next takes r, what type(types[key]) gave for the key at i
RecordOf_new_next(r, shape, i, acc) ==
    IF r.ok
    THEN RecordOf_new(r.reg, shape, i + 1, Append(acc, [k |-> Entries(shape)[i].k, t |-> r.t]))
    ELSE Thrown(r.reg)
RecordOf_new(R, shape, i, acc) ==
    IF i > Len(Entries(shape))
    THEN Returned([New(R, [kind |-> "RecordOf", types |-> acc])
                      EXCEPT !.recordKnown = MapSet(@, shape, NewId(R))], NewId(R))
    ELSE RecordOf_new_next(type(R, <<Entries(shape)[i].h>>), shape, i, acc)

\* for (const [key, value] of this.#known.entries()) if (deepEqual(key, shape)) return value
RecordOf_scan(R, shape, i) ==
    IF i > Len(R.recordKnown) THEN RecordOf_new(R, shape, 1, <<>>)
    ELSE LET eq == deepEqual(R.recordKnown[i].key, shape)
         IN  IF eq = "throw" THEN Thrown(R)
             ELSE IF eq = "true" THEN Returned(R, R.recordKnown[i].val)
             ELSE RecordOf_scan(R, shape, i + 1)

RecordOf_getFor(R, shape) ==
    IF TypeofHint(shape) # "object" \/ IsArrLit(shape) THEN Thrown(R)
    ELSE IF shape = Mk("null") /\ R.recordKnown = <<>> THEN Thrown(R)
    ELSE RecordOf_scan(R, shape, 1)

\* r is what type(typeHint) gave
Nullable_lookup(r) ==
    IF ~r.ok THEN Thrown(r.reg)
    ELSE IF MapHas(r.reg.nullKnown, r.t) THEN Returned(r.reg, MapGet(r.reg.nullKnown, r.t))
    ELSE Returned([New(r.reg, [kind |-> "Nullable", type |-> r.t])
                      EXCEPT !.nullKnown = MapSet(@, r.t, NewId(r.reg))], NewId(r.reg))
\* static getFor(typeHint = null): a missing or undefined hint is null
Nullable_getFor(R, hs) ==
    Nullable_lookup(type(R, <<IF hs = <<>> \/ Head(hs) = Mk("undefined")
                               THEN Mk("null") ELSE Head(hs)>>))

(***************************************************************************)
(* TypedFunction.getFor, Type.js 628-664.  An overload is                  *)
(* [params |-> <<descriptors>>, return |-> descriptor].                    *)
(***************************************************************************)
Overload(ps, r) == [params |-> ps, return |-> r]

RECURSIVE TypedFunction_overloads(_, _, _, _)
\* a mutation: every return marker starts a new overload, the last one too
TypedFunction_reduce_alwaysPush(r, typeHints, index, acc) ==
    IF ~r.ok THEN [reg |-> r.reg, ok |-> FALSE, overloads |-> acc]
    ELSE IF IsRet(typeHints[index])
    THEN TypedFunction_overloads(r.reg, typeHints, index + 1,
             Append([acc EXCEPT ![Len(acc)].return = r.t], Overload(<<>>, Type_null)))
    ELSE TypedFunction_overloads(r.reg, typeHints, index + 1,
             [acc EXCEPT ![Len(acc)].params = Append(@, r.t)])
\* the body of the reduce callback, r being the descriptor of the hint at index:
\* a hint that is a function without prototype closes the current overload with
\* its return type
TypedFunction_reduce(r, typeHints, index, acc) ==
    IF ~r.ok THEN [reg |-> r.reg, ok |-> FALSE, overloads |-> acc]
    ELSE IF IsRet(typeHints[index])
    THEN TypedFunction_overloads(r.reg, typeHints, index + 1,
             IF index # Len(typeHints)
             THEN Append([acc EXCEPT ![Len(acc)].return = r.t], Overload(<<>>, Type_null))
             ELSE [acc EXCEPT ![Len(acc)].return = r.t])
    ELSE TypedFunction_overloads(r.reg, typeHints, index + 1,
             [acc EXCEPT ![Len(acc)].params = Append(@, r.t)])
\* typeHints.reduce(...)
TypedFunction_overloads(R, typeHints, index, acc) ==
    IF index > Len(typeHints) THEN [reg |-> R, ok |-> TRUE, overloads |-> acc]
    ELSE TypedFunction_reduce(
             type(R, <<IF IsRet(typeHints[index]) THEN typeHints[index].ret
                       ELSE typeHints[index]>>),
             typeHints, index, acc)

\* the predicate of [...this.#known.keys()].find(key => ...)
TypedFunction_sameOverloads(key, overloads) ==
    /\ Len(key) = Len(overloads)
    /\ \A o \in 1..Len(overloads) :
          \E k \in 1..Len(key) :
             /\ key[k].return = overloads[o].return
             /\ \A p \in 1..Len(key[k].params) :
                   /\ p <= Len(overloads[o].params)
                   /\ overloads[o].params[p] = key[k].params[p]

\* r is what the reduce gave
TypedFunction_lookup(r) ==
    LET found == {i \in 1..Len(r.reg.funcKnown) :
                     TypedFunction_sameOverloads(r.reg.funcKnown[i].key, r.overloads)}
    IN  IF ~r.ok THEN Thrown(r.reg)
        ELSE IF found # {}
        THEN Returned(r.reg, r.reg.funcKnown[CHOOSE i \in found : \A j \in found : i <= j].val)
        ELSE Returned([New(r.reg, [kind |-> "TypedFunction", overloads |-> r.overloads])
                          EXCEPT !.funcKnown = MapSet(@, r.overloads, NewId(r.reg))],
                      NewId(r.reg))
TypedFunction_getFor(R, typeHints) ==
    TypedFunction_lookup(TypedFunction_overloads(R, typeHints, 1, <<Overload(<<>>, Type_null)>>))

\* the exported helpers, Type.js 667-692
Factory(f, R, hs) ==
    CASE f \in {"type", "oneOf"} -> type(R, hs)
      [] f = "arrayOf" -> ArrayOf_getFor(R, hs)
      [] f = "tupleOf" -> TupleOf_getFor(R, hs)
      [] f = "recordOf" -> RecordOf_getFor(R, IF hs = <<>> THEN Mk("undefined") ELSE hs[1])
      [] f = "_null" -> Nullable_getFor(R, hs)
      [] f = "func" -> TypedFunction_getFor(R, hs)

(***************************************************************************)
(* isValid(value) of every kind of descriptor.  ts is the heap of          *)
(* descriptors; the result is "true", "false", or "throw" when the check   *)
(* raises (Type.#null's validation function, or a native TypeError).       *)
(***************************************************************************)
\* Object.getOwnPropertyNames(value) with the values, for a plain object
Props(v) == Target(v).obj
Elems(v) == Target(v).arr
HasProp(v, k) == \E i \in 1..Len(Props(v)) : Props(v)[i].k = k
\* a mutation: the null descriptor refuses every value instead of raising
Type_validationFunction_nullFalse(name, value) ==
    CASE name = "null" -> "false"
      [] name = "undefined" -> "true"
      [] name = "boolean" -> IF IsBool(value) THEN "true" ELSE "false"
      [] name = "number" -> IF IsNum(value) THEN "true" ELSE "false"
      [] name = "string" -> IF IsStr(value) THEN "true" ELSE "false"
      [] name = "object" -> IF IsObj(value) THEN "true" ELSE "false"
      [] name = "array" -> IF IsArr(value) THEN "true" ELSE "false"
      [] name = "symbol" -> IF TypeofValue(value) = "symbol" THEN "true" ELSE "false"
      [] name = "function" -> IF TypeofValue(value) = "function" THEN "true" ELSE "false"
\* the static validation functions, Type.js 60-85
Type_validationFunction(name, value) ==
    CASE name = "null" -> "throw"
      [] name = "undefined" -> "true"
      [] name = "boolean" -> IF IsBool(value) THEN "true" ELSE "false"
      [] name = "number" -> IF IsNum(value) THEN "true" ELSE "false"
      [] name = "string" -> IF IsStr(value) THEN "true" ELSE "false"
      [] name = "object" -> IF IsObj(value) THEN "true" ELSE "false"
      [] name = "array" -> IF IsArr(value) THEN "true" ELSE "false"
      [] name = "symbol" -> IF TypeofValue(value) = "symbol" THEN "true" ELSE "false"
      [] name = "function" -> IF TypeofValue(value) = "function" THEN "true" ELSE "false"

\* index of the tuple member or record key declared for property key, 0 if none
TupleIndex(key) ==
    IF \E i \in 1..Len(IndexKeys) : IndexKeys[i] = key
    THEN CHOOSE i \in 1..Len(IndexKeys) : IndexKeys[i] = key ELSE 0
\* this.#types[key] of a TupleOf: 0 stands for undefined
TupleOf_typeAt(x, key) ==
    IF TupleIndex(key) \in 1..Len(x.types) THEN x.types[TupleIndex(key)] ELSE 0
\* this.#types[key] of a RecordOf: 0 stands for undefined
RecordOf_typeAt(x, key) ==
    IF \E i \in 1..Len(x.types) : x.types[i].k = key
    THEN x.types[CHOOSE i \in 1..Len(x.types) : x.types[i].k = key].t ELSE 0

RECURSIVE isValid(_, _, _), OneOf_find(_, _, _, _), ArrayOf_every(_, _, _, _)
RECURSIVE TupleOf_every(_, _, _, _), RecordOf_every(_, _, _, _)

\* this.#subTypes.find(t => t.isValid(value)) !== undefined
OneOf_find(ts, subTypes, value, i) ==
    IF i > Len(subTypes) THEN "false"
    ELSE LET r == isValid(ts, subTypes[i], value)
         IN  IF r = "false" THEN OneOf_find(ts, subTypes, value, i + 1) ELSE r

\* value.every(v => this.#type.isValid(v))
ArrayOf_every(ts, t, elems, i) ==
    IF i > Len(elems) THEN "true"
    ELSE LET r == isValid(ts, t, elems[i])
         IN  IF r = "true" THEN ArrayOf_every(ts, t, elems, i + 1) ELSE r

\* value.every((v, i) => this.#types[i]?.isValid(v))
TupleOf_every(ts, x, elems, i) ==
    IF i > Len(elems) THEN "true"
    ELSE LET r == IF i > Len(x.types) THEN "false" ELSE isValid(ts, x.types[i], elems[i])
         IN  IF r = "true" THEN TupleOf_every(ts, x, elems, i + 1) ELSE r

\* [...symbols, ...names].every(key => this.#types[key]?.isValid(value[key]))
RecordOf_every(ts, x, props, i) ==
    IF i > Len(props) THEN "true"
    ELSE LET t == RecordOf_typeAt(x, props[i].k)
             r == IF t = 0 THEN "false" ELSE isValid(ts, t, props[i].v)
         IN  IF r = "true" THEN RecordOf_every(ts, x, props, i + 1) ELSE r

TupleOf_isValid(ts, x, value) ==
    IF ~IsArr(value) THEN "false" ELSE TupleOf_every(ts, x, Elems(value), 1)

\* a mutation: an array that checks only its first element
ArrayOf_isValid_first(ts, x, value) ==
    IF ~IsArr(value) THEN "false"
    ELSE ArrayOf_every(ts, x.type, IF Elems(value) = <<>> THEN <<>> ELSE <<Elems(value)[1]>>, 1)
ArrayOf_isValid(ts, x, value) ==
    IF ~IsArr(value) THEN "false" ELSE ArrayOf_every(ts, x.type, Elems(value), 1)

\* typeof null is "object": Object.getOwnPropertySymbols(null) is a TypeError
RecordOf_isValid(ts, x, value) ==
    IF TypeofValue(value) # "object" \/ IsArr(value) THEN "false"
    ELSE IF IsNull(value) THEN "throw"
    ELSE RecordOf_every(ts, x, Props(value), 1)

\* value instanceof typeHint: an object made by the class is an instance of it;
\* an arrow function has no prototype, and instanceof throws for an object
InstanceOf_isValid(x, value) ==
    IF IsCls(x.fn)
    THEN (IF IsInst(value) /\ value.inst = x.fn.cls THEN "true" ELSE "false")
    ELSE IF TypeofValue(value) \in {"object", "function"} /\ ~IsNull(value) THEN "throw"
    ELSE "false"

Nullable_isValid(ts, x, value) ==
    IF IsNull(value) \/ IsUndefined(value) THEN "true" ELSE isValid(ts, x.type, value)

isValid(ts, d, value) ==
    LET x == ts[d]
    IN  CASE x.kind = "Type" -> Type_validationFunction(x.name, value)
          [] x.kind = "InstanceOf" -> InstanceOf_isValid(x, value)
          [] x.kind = "Primitive" -> IF x.value = value THEN "true" ELSE "false"
          [] x.kind = "Instance" -> IF x.value = value THEN "true" ELSE "false"
          [] x.kind = "OneOf" -> OneOf_find(ts, x.subTypes, value, 1)
          [] x.kind = "ArrayOf" -> ArrayOf_isValid(ts, x, value)
          [] x.kind = "TupleOf" -> TupleOf_isValid(ts, x, value)
          [] x.kind = "RecordOf" -> RecordOf_isValid(ts, x, value)
          [] x.kind = "Nullable" -> Nullable_isValid(ts, x, value)
          [] x.kind = "TypedFunction" ->
                IF TypeofValue(value) = "function" THEN "true" ELSE "false"

(***************************************************************************)
(* initialize() of every kind of descriptor.  A symbol and a function are  *)
(* values of their own kind: [sym |-> name], [fun |-> what it closes on].  *)
(***************************************************************************)
\* the third argument of new Type(...) for the static descriptors, Type.js 60-85
Type_initialValue(name) ==
    CASE name = "null" -> Null
      [] name = "undefined" -> Undefined
      [] name = "boolean" -> Bool(FALSE)
      [] name = "number" -> Num(0)
      [] name = "string" -> Str("")
      [] name = "object" -> Obj(<<>>)
      [] name = "array" -> Arr(<<>>)
      [] name = "symbol" -> [sym |-> "Symbol()"]
      [] name = "function" -> [fun |-> "_=>_"]

RECURSIVE initialize(_, _), TupleOf_initialize(_, _, _), RecordOf_initialize(_, _, _)
\* this.#types.map(t => t.initialize())
TupleOf_initialize(ts, tys, i) ==
    IF i > Len(tys) THEN <<>>
    ELSE <<initialize(ts, tys[i])>> \o TupleOf_initialize(ts, tys, i + 1)
\* the entries [key, this.#types[key].initialize()] in the order of the keys
RecordOf_initialize(ts, tys, i) ==
    IF i > Len(tys) THEN <<>>
    ELSE <<KV(tys[i].k, initialize(ts, tys[i].t))>> \o RecordOf_initialize(ts, tys, i + 1)
\* this.#subTypes[0].initialize()
OneOf_initialize(ts, x) == initialize(ts, x.subTypes[1])

initialize(ts, d) ==
    LET x == ts[d]
    IN  CASE x.kind = "Type" -> Type_initialValue(x.name)
          [] x.kind = "InstanceOf" -> Undefined
          [] x.kind = "Primitive" -> x.value
          [] x.kind = "Instance" -> x.value
          [] x.kind = "OneOf" -> OneOf_initialize(ts, x)
          [] x.kind = "ArrayOf" -> Arr(<<>>)
          [] x.kind = "TupleOf" -> Arr(TupleOf_initialize(ts, x.types, 1))
          [] x.kind = "RecordOf" -> Obj(RecordOf_initialize(ts, x.types, 1))
          [] x.kind = "Nullable" -> Null
          [] x.kind = "TypedFunction" -> [fun |-> d]

(***************************************************************************)
(* isValidAt(index, value) of every kind of descriptor, with the results   *)
(* of isValid.  index is a property key.                                   *)
(***************************************************************************)
RECURSIVE isValidAt(_, _, _, _), OneOf_findAt(_, _, _, _, _)
RECURSIVE TypedFunction_someAt(_, _, _, _, _)
\* r is what the member at i gave: find stops at the first member that does
\* not give false
OneOf_findAt_next(r, ts, subTypes, index, value, i) ==
    IF r = "false" THEN OneOf_findAt(ts, subTypes, index, value, i + 1) ELSE r
\* this.#subTypes.find(t => t.isValidAt(index, value)) !== undefined
OneOf_findAt(ts, subTypes, index, value, i) ==
    IF i > Len(subTypes) THEN "false"
    ELSE OneOf_findAt_next(isValidAt(ts, subTypes[i], index, value),
                           ts, subTypes, index, value, i)
\* index < this.#types.length && this.#types[index].isValid(value)
TupleOf_isValidAt(ts, x, index, value) ==
    IF TupleIndex(index) \in 1..Len(x.types)
    THEN isValid(ts, x.types[TupleIndex(index)], value) ELSE "false"
\* this.#types[index].isValid(value): a key that is not declared gives
\* undefined.isValid, a native TypeError
RecordOf_isValidAt(ts, x, index, value) ==
    IF RecordOf_typeAt(x, index) = 0 THEN "throw"
    ELSE isValid(ts, RecordOf_typeAt(x, index), value)
\* overload.return.isValid(value), or overload.params[index]?.isValid(value)
TypedFunction_validAt(ts, overload, index, value) ==
    IF index = "return" THEN isValid(ts, overload.return, value)
    ELSE IF TupleIndex(index) \in 1..Len(overload.params)
    THEN isValid(ts, overload.params[TupleIndex(index)], value)
    ELSE "false"
TypedFunction_someAt_next(r, ts, overloads, index, value, i) ==
    IF r = "false" THEN TypedFunction_someAt(ts, overloads, index, value, i + 1) ELSE r
\* this.#overloads.some(overload => ...)
TypedFunction_someAt(ts, overloads, index, value, i) ==
    IF i > Len(overloads) THEN "false"
    ELSE TypedFunction_someAt_next(TypedFunction_validAt(ts, overloads[i], index, value),
                                   ts, overloads, index, value, i)

isValidAt(ts, d, index, value) ==
    LET x == ts[d]
    IN  CASE x.kind = "OneOf" -> OneOf_findAt(ts, x.subTypes, index, value, 1)
          [] x.kind = "ArrayOf" -> isValid(ts, x.type, value)
          [] x.kind = "TupleOf" -> TupleOf_isValidAt(ts, x, index, value)
          [] x.kind = "RecordOf" -> RecordOf_isValidAt(ts, x, index, value)
          [] x.kind = "Nullable" -> isValidAt(ts, x.type, index, value)
          [] x.kind = "TypedFunction" -> TypedFunction_someAt(ts, x.overloads, index, value, 1)
          [] OTHER -> "false"

(***************************************************************************)
(* subtypeAt(index).  0 stands for undefined.  OneOf.subtypeAt calls the   *)
(* factory oneOf, so the registries are threaded through.                  *)
(***************************************************************************)
RECURSIVE subtypeAt(_, _, _), OneOf_subtypesAt(_, _, _, _)

\* this.#subTypes.map(t => t.subtypeAt(index)), as the hints handed to oneOf
\* OneOf_subtypesAt_next takes r, what t.subtypeAt(index) gave for the next member
OneOf_subtypesAt_next(r, subTypes, index, acc) ==
    IF ~r.ok THEN [reg |-> r.reg, ok |-> FALSE, hints |-> acc]
    ELSE OneOf_subtypesAt(r.reg, subTypes, index,
             Append(acc, IF r.t = 0 THEN Mk("undefined") ELSE T(r.t)))
OneOf_subtypesAt(R, subTypes, index, acc) ==
    IF Len(acc) = Len(subTypes) THEN [reg |-> R, ok |-> TRUE, hints |-> acc]
    ELSE OneOf_subtypesAt_next(subtypeAt(R, subTypes[Len(acc) + 1], index), subTypes, index, acc)

\* TypedFunction.subtypeAt: the return type or the parameter at a position
TypedFunction_subtypeAt(R, x, index) ==
    LET at(o) == IF index = "return" THEN o.return
                 ELSE IF TupleIndex(index) \in 1..Len(o.params)
                 THEN o.params[TupleIndex(index)] ELSE 0
        hint(o) == IF at(o) = 0 THEN Mk("undefined") ELSE T(at(o))
    IN  IF Len(x.overloads) = 1 THEN Returned(R, at(x.overloads[1]))
        ELSE type(R, [i \in 1..Len(x.overloads) |-> hint(x.overloads[i])])

\* oneOf(...m), m being what the map over the members gave
OneOf_subtypeAt(m) == IF m.ok THEN type(m.reg, m.hints) ELSE Thrown(m.reg)

subtypeAt(R, d, index) ==
    LET x == R.types[d]
    IN  CASE x.kind = "OneOf" -> OneOf_subtypeAt(OneOf_subtypesAt(R, x.subTypes, index, <<>>))
          [] x.kind = "ArrayOf" -> Returned(R, x.type)
          [] x.kind = "TupleOf" -> Returned(R, TupleOf_typeAt(x, index))
          [] x.kind = "RecordOf" -> Returned(R, RecordOf_typeAt(x, index))
          [] x.kind = "Nullable" -> subtypeAt(R, x.type, index)
          [] x.kind = "TypedFunction" -> TypedFunction_subtypeAt(R, x, index)
          [] OTHER -> Returned(R, 0)

(***************************************************************************)
(* editValue(value): [ok, v], ~ok when it throws (new Proxy of a value     *)
(* that is not an object is a TypeError).                                  *)
(***************************************************************************)
IsObject(value) == TypeofValue(value) = "object" /\ ~IsNull(value)
NewProxy(d, value) ==
    IF IsObject(value) THEN [ok |-> TRUE, v |-> Proxied(d, value)]
    ELSE [ok |-> FALSE, v |-> value]

editValue(ts, d, value) ==
    LET x == ts[d]
    IN  CASE x.kind \in {"ArrayOf", "TupleOf", "RecordOf"} -> NewProxy(d, value)
          [] x.kind = "OneOf" ->
                IF TypeofValue(value) # "object" THEN [ok |-> TRUE, v |-> value]
                ELSE NewProxy(d, value)
          [] x.kind = "TypedFunction" -> [ok |-> TRUE, v |-> [wrapper |-> d, fn |-> value]]
          [] OTHER -> [ok |-> TRUE, v |-> value]

(***************************************************************************)
(* Properties of the wrapped object.                                       *)
(***************************************************************************)
\* obj[prop] = value on an array (prop an index up to its length) or a plain object
SetProp(obj, prop, value) ==
    IF "arr" \in DOMAIN obj
    THEN Arr([i \in 1..(IF TupleIndex(prop) > Len(obj.arr) THEN Len(obj.arr) + 1 ELSE Len(obj.arr))
                 |-> IF i = TupleIndex(prop) THEN value ELSE obj.arr[i]])
    ELSE IF \E i \in 1..Len(obj.obj) : obj.obj[i].k = prop
    THEN Obj([i \in 1..Len(obj.obj) |->
                 IF obj.obj[i].k = prop THEN KV(prop, value) ELSE obj.obj[i]])
    ELSE Obj(Append(obj.obj, KV(prop, value)))
\* obj[prop]
GetProp(obj, prop) ==
    IF "arr" \in DOMAIN obj
    THEN (IF TupleIndex(prop) \in 1..Len(obj.arr) THEN obj.arr[TupleIndex(prop)] ELSE Undefined)
    ELSE IF \E i \in 1..Len(obj.obj) : obj.obj[i].k = prop
    THEN obj.obj[CHOOSE i \in 1..Len(obj.obj) : obj.obj[i].k = prop].v
    ELSE Undefined

(***************************************************************************)
(* The set traps of the proxy handlers: [reg, trap, obj], trap "true" or   *)
(* "false" as the trap returns, or "throw"; obj is the target afterwards.  *)
(***************************************************************************)
Trap(R, trap, obj) == [reg |-> R, trap |-> trap, obj |-> obj]

\* if the declared type t validates value, store t.editValue(value)
\* obj[prop] = e, e being what t.editValue(value) gave
Store(R, e, obj, prop) ==
    IF ~e.ok THEN Trap(R, "throw", obj) ELSE Trap(R, "true", SetProp(obj, prop, e.v))
\* r is what t.isValid(value) gave
Checked(R, r, t, obj, prop, value) ==
    IF r = "throw" THEN Trap(R, "throw", obj)
    ELSE IF r = "false" THEN Trap(R, "false", obj)
    ELSE Store(R, editValue(R.types, t, value), obj, prop)
CheckedStore(R, t, obj, prop, value) ==
    Checked(R, isValid(R.types, t, value), t, obj, prop, value)

ArrayOf_set(R, x, obj, prop, value) == CheckedStore(R, x.type, obj, prop, value)

TupleOf_set(R, x, obj, prop, value) ==
    IF TupleOf_typeAt(x, prop) = 0 THEN Trap(R, "false", obj)
    ELSE CheckedStore(R, TupleOf_typeAt(x, prop), obj, prop, value)

RecordOf_set(R, x, obj, prop, value) ==
    IF RecordOf_typeAt(x, prop) = 0 THEN Trap(R, "false", obj)
    ELSE CheckedStore(R, RecordOf_typeAt(x, prop), obj, prop, value)

RECURSIVE OneOf_filter(_, _, _, _), OneOf_someComposite(_, _, _, _)
\* t is kept when r, what t.isValid(value) gave, is true; rest is the filter of
\* the members after t
OneOf_filter_keep(r, t, rest) ==
    IF r = "throw" THEN [ok |-> FALSE, ts |-> <<>>]
    ELSE IF r = "true" THEN [ok |-> rest.ok, ts |-> <<t>> \o rest.ts]
    ELSE rest
\* subTypes.filter(t => t.isValid(value)): [ok, ts], ~ok when a check throws
OneOf_filter(ts, subTypes, value, i) ==
    IF i > Len(subTypes) THEN [ok |-> TRUE, ts |-> <<>>]
    ELSE OneOf_filter_keep(isValid(ts, subTypes[i], value), subTypes[i],
                           OneOf_filter(ts, subTypes, value, i + 1))

\* r is what t.subtypeAt(prop) gave for the type at i
OneOf_someComposite_next(r, possibleTypes, prop, i) ==
    IF ~r.ok THEN [reg |-> r.reg, ok |-> FALSE, some |-> FALSE]
    ELSE IF r.t # 0 /\ r.reg.types[r.t].kind \in {"ArrayOf", "TupleOf", "RecordOf"}
    THEN [reg |-> r.reg, ok |-> TRUE, some |-> TRUE]
    ELSE OneOf_someComposite(r.reg, possibleTypes, prop, i + 1)
\* possibleTypes.some(t => t.subtypeAt(prop) instanceof ArrayOf, TupleOf or RecordOf)
OneOf_someComposite(R, possibleTypes, prop, i) ==
    IF i > Len(possibleTypes) THEN [reg |-> R, ok |-> TRUE, some |-> FALSE]
    ELSE OneOf_someComposite_next(subtypeAt(R, possibleTypes[i], prop), possibleTypes, prop, i)

\* isSafe = ! possibleTypes.some(...), unsafe being what some(...) gave
OneOf_isSafe(unsafe) ==
    IF ~unsafe.ok THEN [reg |-> unsafe.reg, trap |-> "throw"]
    ELSE IF ~unsafe.some THEN [reg |-> unsafe.reg, trap |-> "true"]
    ELSE [reg |-> unsafe.reg, trap |-> "false"]
\* a mutation: a write that no member is compatible with is not refused
OneOf_compatible_unchecked(R, compatibleTypes, prop) ==
    IF ~compatibleTypes.ok THEN [reg |-> R, trap |-> "throw"]
    ELSE OneOf_isSafe(OneOf_someComposite(R, compatibleTypes.ts, prop, 1))
\* compatibleTypes is what subTypes.filter(t => t.isValid(newObject)) gave
OneOf_compatible(R, compatibleTypes, prop) ==
    IF ~compatibleTypes.ok THEN [reg |-> R, trap |-> "throw"]
    ELSE IF Len(compatibleTypes.ts) = 0 THEN [reg |-> R, trap |-> "false"]
    ELSE OneOf_isSafe(OneOf_someComposite(R, compatibleTypes.ts, prop, 1))
\* possibleTypes is what subTypes.filter(t => t.isValid(value)) gave; newObject
\* is the shallow copy of obj with the property set
OneOf_possible(R, possibleTypes, x, obj, prop, value) ==
    IF ~possibleTypes.ok THEN [reg |-> R, trap |-> "throw"]
    ELSE OneOf_compatible(R, OneOf_filter(R.types, x.subTypes, SetProp(obj, prop, value), 1), prop)
\* what the trap of OneOf.editValue decides: [reg, trap]
OneOf_trap(R, x, obj, prop, value) ==
    OneOf_possible(R, OneOf_filter(R.types, x.subTypes, value, 1), x, obj, prop, value)

\* a mutation: a committed write narrows every union to the members that
\* validate the object written
OneOf_commit_narrowing(r, obj, prop, value) ==
    IF r.trap # "true" THEN Trap(r.reg, r.trap, obj)
    ELSE Trap([r.reg EXCEPT !.types =
                  [i \in DOMAIN @ |->
                      IF @[i].kind = "OneOf"
                      THEN [@[i] EXCEPT !.subTypes =
                              SelectSeq(@, LAMBDA t :
                                  isValid(r.reg.types, t, SetProp(obj, prop, value)) = "true")]
                      ELSE @[i]]],
              r.trap, SetProp(obj, prop, value))
\* obj[prop] = value when the trap r returns true
OneOf_commit(r, obj, prop, value) ==
    Trap(r.reg, r.trap, IF r.trap = "true" THEN SetProp(obj, prop, value) ELSE obj)

\* a mutation: newObject is the target itself, not a copy of it
OneOf_set_aliased(R, x, obj, prop, value) ==
    LET r == OneOf_trap(R, x, obj, prop, value)
    IN  Trap(r.reg, r.trap, SetProp(obj, prop, value))
\* the write goes to the shallow copy newObject; obj[prop] = value only when safe
OneOf_set(R, x, obj, prop, value) ==
    OneOf_commit(OneOf_trap(R, x, obj, prop, value), obj, prop, value)

\* the set trap of the handler that d.editValue installs
proxyHandler_set(R, d, obj, prop, value) ==
    LET x == R.types[d]
    IN  CASE x.kind = "ArrayOf" -> ArrayOf_set(R, x, obj, prop, value)
          [] x.kind = "TupleOf" -> TupleOf_set(R, x, obj, prop, value)
          [] x.kind = "RecordOf" -> RecordOf_set(R, x, obj, prop, value)
          [] x.kind = "OneOf" -> OneOf_set(R, x, obj, prop, value)

(***************************************************************************)
(* TypedFunction.editValue, Type.js 595-614: the wrapper called with       *)
(* receiver this and arguments args around a function that returns         *)
(* returnValue.  The outcome is [out, at, ran, value]: out is "return",    *)
(* "InvalidArgument", "InvalidReturn" (the library's TypeError thrown by   *)
(* the wrapper) or "throw" (an error raised inside a check); at is the     *)
(* position of the argument, from 1; ran holds the invocations of the      *)
(* wrapped function.                                                       *)
(***************************************************************************)
\* overload.params[i].isValid(args[i]): reading isValid of a parameter that the
\* overload does not have is a native TypeError
TypedFunction_paramValid(ts, overload, i, arg) ==
    IF i > Len(overload.params) THEN "throw" ELSE isValid(ts, overload.params[i], arg)

RECURSIVE TypedFunction_filter(_, _, _, _, _), TypedFunction_args(_, _, _, _)
RECURSIVE TypedFunction_some(_, _, _, _)
\* the overload is kept when r, what its parameter check gave, is true
TypedFunction_filter_keep(r, overload, rest) ==
    IF r = "throw" THEN [ok |-> FALSE, os |-> <<>>]
    ELSE IF r = "true" THEN [ok |-> rest.ok, os |-> <<overload>> \o rest.os]
    ELSE rest
\* possibleOverloads.filter(overload => overload.params[i].isValid(args[i]))
TypedFunction_filter(ts, possibleOverloads, i, arg, k) ==
    IF k > Len(possibleOverloads) THEN [ok |-> TRUE, os |-> <<>>]
    ELSE TypedFunction_filter_keep(TypedFunction_paramValid(ts, possibleOverloads[k], i, arg),
                                   possibleOverloads[k],
                                   TypedFunction_filter(ts, possibleOverloads, i, arg, k + 1))

\* the body of the for loop, newOverloads being what the filter gave at i
TypedFunction_args_next(newOverloads, ts, args, i) ==
    IF ~newOverloads.ok THEN [out |-> "throw", at |-> i, os |-> <<>>]
    ELSE IF Len(newOverloads.os) = 0 THEN [out |-> "InvalidArgument", at |-> i, os |-> <<>>]
    ELSE TypedFunction_args(ts, newOverloads.os, args, i + 1)
\* for (let i = 0; i < args.length; i++)
TypedFunction_args(ts, possibleOverloads, args, i) ==
    IF i > Len(args) THEN [out |-> "pass", at |-> 0, os |-> possibleOverloads]
    ELSE TypedFunction_args_next(TypedFunction_filter(ts, possibleOverloads, i, args[i], 1),
                                 ts, args, i)

\* possibleOverloads.some(overload => overload.return.isValid(returnValue))
TypedFunction_some(ts, possibleOverloads, returnValue, k) ==
    IF k > Len(possibleOverloads) THEN "false"
    ELSE LET r == isValid(ts, possibleOverloads[k].return, returnValue)
         IN  IF r = "false" THEN TypedFunction_some(ts, possibleOverloads, returnValue, k + 1)
             ELSE r

\* r is what the return check gave, after value.call(this, ...args) returned
TypedFunction_returned(r, this, args, returnValue) ==
    [out |-> IF r = "true" THEN "return" ELSE IF r = "false" THEN "InvalidReturn" ELSE "throw",
     at |-> 0,
     ran |-> <<[this |-> this, args |-> args]>>,
     value |-> IF r = "true" THEN returnValue ELSE Undefined]
\* a is what the loop over the arguments gave
TypedFunction_invoke(a, ts, this, args, returnValue) ==
    IF a.out # "pass" THEN [out |-> a.out, at |-> a.at, ran |-> <<>>, value |-> Undefined]
    ELSE TypedFunction_returned(TypedFunction_some(ts, a.os, returnValue, 1),
                                this, args, returnValue)
\* a mutation: the wrapped function runs before the arguments are checked
TypedFunction_call_runFirst(ts, overloads, this, args, returnValue) ==
    [TypedFunction_invoke(TypedFunction_args(ts, overloads, args, 1), ts, this, args, returnValue)
        EXCEPT !.ran = <<[this |-> this, args |-> args]>>]
TypedFunction_call(ts, overloads, this, args, returnValue) ==
    TypedFunction_invoke(TypedFunction_args(ts, overloads, args, 1), ts, this, args, returnValue)

(***************************************************************************)
(* The hints the factories are called with.                                *)
(***************************************************************************)
MaxCalls == 3
Number == Mk("Number")
String == Mk("String")
One == Lit(Num(1))
Two == Lit(Num(2))
Created == (Len(Builtins) + 1)..Len(types)
Unions == {i \in Created : types[i].kind = "OneOf"}
\* {a: h} written at evaluation r
Shape(r, h) == ObjLit(r, <<KH("a", h)>>)

TypeArgs ==
    {<<>>} \cup {<<h>> : h \in {Number, String, Mk("null"), Mk("undefined"), One, Cls("Foo"),
                                 Inst(9, "Foo"), ArrLit(1, <<String>>), ArrLit(2, <<Number, String>>),
                                 ArrLit(3, <<ArrLit(4, <<Number>>)>>), ArrLit(5, <<ArrLit(6, <<Number>>)>>),
                                 Shape(7, Number), Shape(8, Number)}}
           \cup {<<T(i)>> : i \in Created \cup {Type_string}}
OneOfAtoms == {Number, String, One} \cup {T(i) : i \in Unions}
OneOfArgs ==
    {<<a, b>> : a \in OneOfAtoms, b \in OneOfAtoms}
        \cup {<<Number, String, One>>, <<One, String, Number>>}
ArrayOfArgs ==
    {<<Number>>, <<String>>, <<Number, String>>, <<String, Number>>, <<>>}
        \cup {<<T(i)>> : i \in Unions}
TupleOfArgs ==
    {<<>>, <<String>>, <<T(Type_string)>>, <<Number, String>>, <<String, Number>>,
     <<ArrLit(4, <<Number>>)>>, <<ArrLit(6, <<Number>>)>>, <<Shape(7, Number)>>}
RecordOfArgs ==
    {<<h>> : h \in {Shape(7, Number), Shape(8, Number), Shape(10, String), Shape(11, One),
                    Shape(12, Two), Shape(13, T(Type_number)), ObjLit(14, <<>>),
                    ObjLit(15, <<KH("b", Number)>>),
                    Number, One, ArrLit(4, <<Number>>), Mk("null"), Inst(9, "Foo"),
                    Shape(27, Mk("null")), Shape(28, ObjLit(14, <<>>))}}
NullArgs == {<<Number>>, <<String>>, <<T(Type_number)>>, <<>>} \cup {<<T(i)>> : i \in Unions}
FuncArgs ==
    {<<Number, Ret(16, Number)>>, <<Number, String, Ret(16, Number)>>, <<Number>>,
     <<Number, Ret(16, Number), String, Ret(17, String)>>,
     <<String, Ret(17, String), Number, Ret(16, Number)>>,
     <<>>, <<Number, Ret(16, Number), String>>}

(***************************************************************************)
(* The state machine: one action per exported factory.                     *)
(***************************************************************************)
Init ==
    /\ types = Builtins
    /\ typeKnown = <<>>
    /\ primKnown = <<>>
    /\ instKnown = <<>>
    /\ oneOfKnown = <<>>
    /\ arrayKnown = <<>>
    /\ tupleKnown = <<>>
    /\ recordKnown = <<>>
    /\ nullKnown = <<>>
    /\ funcKnown = <<>>
    /\ calls = <<>>
    /\ checked = [d |-> 0]
    /\ handler = 0
    /\ target = Undefined
    /\ assigned = [n |-> 0]
    /\ called = [n |-> 0]
    /\ initialized = [d |-> 0]
    /\ edited = [d |-> 0]
    /\ checkedAt = [d |-> 0]
    /\ field = [d |-> 0]

SetReg(R) ==
    /\ types' = R.types
    /\ typeKnown' = R.typeKnown
    /\ primKnown' = R.primKnown
    /\ instKnown' = R.instKnown
    /\ oneOfKnown' = R.oneOfKnown
    /\ arrayKnown' = R.arrayKnown
    /\ tupleKnown' = R.tupleKnown
    /\ recordKnown' = R.recordKnown
    /\ nullKnown' = R.nullKnown
    /\ funcKnown' = R.funcKnown

\* f(...hs) is evaluated: the registries change and the outcome is recorded
\* r is what the factory f gave for the hints hs
Call(f, hs, r) ==
    /\ SetReg(r.reg)
    /\ calls' = Append(calls, [f |-> f, hints |-> hs, ok |-> r.ok, t |-> r.t])
    /\ UNCHANGED useVars

Call_type == Len(calls) < MaxCalls /\ \E hs \in TypeArgs : Call("type", hs, type(Reg, hs))
Call_oneOf == Len(calls) < MaxCalls /\ \E hs \in OneOfArgs : Call("oneOf", hs, type(Reg, hs))
Call_arrayOf == Len(calls) < MaxCalls /\ \E hs \in ArrayOfArgs : Call("arrayOf", hs, ArrayOf_getFor(Reg, hs))
Call_tupleOf == Len(calls) < MaxCalls /\ \E hs \in TupleOfArgs : Call("tupleOf", hs, TupleOf_getFor(Reg, hs))
Call_recordOf == Len(calls) < MaxCalls /\ \E hs \in RecordOfArgs : Call("recordOf", hs, Factory("recordOf", Reg, hs))
Call_null == Len(calls) < MaxCalls /\ \E hs \in NullArgs : Call("_null", hs, Nullable_getFor(Reg, hs))
Call_func == Len(calls) < MaxCalls /\ \E hs \in FuncArgs : Call("func", hs, TypedFunction_getFor(Reg, hs))

Next ==
    \/ Call_type
    \/ Call_oneOf
    \/ Call_arrayOf
    \/ Call_tupleOf
    \/ Call_recordOf
    \/ Call_null
    \/ Call_func

Spec == Init /\ [][Next]_vars

(***************************************************************************)
(* Using descriptors: a few are declared, then values are checked          *)
(* (SpecValid) or an object is wrapped by editValue and assigned to        *)
(* through the proxy (SpecEdit).                                           *)
(***************************************************************************)
MaxDecls == 2
MaxLen == 2
MaxWrites == 1
Nullables == {i \in Created : types[i].kind = "Nullable"}
Decl(f, hs) == [f |-> f, hs |-> hs]
Decls ==
    {Decl("_null", <<Number>>),
     Decl("_null", <<Number, String>>),
     Decl("_null", <<Mk("undefined")>>),
     Decl("recordOf", <<Shape(7, Number)>>),
     Decl("tupleOf", <<Number>>),
     Decl("tupleOf", <<Number, String>>),
     Decl("arrayOf", <<Number>>),
     Decl("arrayOf", <<Number, String>>),
     Decl("arrayOf", <<ArrLit(4, <<Number>>)>>),
     Decl("arrayOf", <<>>),
     Decl("oneOf", <<Number, String>>),
     Decl("oneOf", <<Shape(7, Number), ObjLit(18, <<KH("b", String)>>)>>),
     Decl("oneOf", <<Shape(19, ArrLit(4, <<Number>>)), Number>>),
     Decl("oneOf", <<ArrLit(4, <<Number>>), ArrLit(2, <<Number, String>>)>>)}
        \cup {Decl("recordOf", <<ObjLit(20, <<KH("a", Number), KH("b", T(n))>>)>>) : n \in Nullables}
        \cup {Decl("arrayOf", <<T(n), String>>) : n \in Nullables}
        \cup {Decl("arrayOf", <<T(u)>>) : u \in Unions}

RECURSIVE SeqsUpTo(_, _)
\* the sequences over S of length at most n
SeqsUpTo(S, n) ==
    IF n = 0 THEN {<<>>}
    ELSE SeqsUpTo(S, n - 1) \cup {Append(q, e) : q \in SeqsUpTo(S, n - 1), e \in S}
ElemValues == {Num(1), Str("x")}
Arrays ==
    {Arr(q) : q \in SeqsUpTo(ElemValues, MaxLen)} \cup {Arr(<<Arr(<<Num(1)>>)>>), Arr(<<Null>>)}
Objects ==
    {Obj(<<>>)} \cup {Obj(<<KV(k, e)>>) : k \in {"a", "b"}, e \in ElemValues}
        \cup {Obj(<<KV("a", e), KV("b", f)>>) : e \in ElemValues, f \in ElemValues \cup {Null}}
Values == {Num(1), Str("x"), Null, Undefined} \cup Arrays \cup Objects

Declare == Len(calls) < MaxDecls /\ \E c \in Decls : Call(c.f, c.hs, Factory(c.f, Reg, c.hs))

\* the descriptors a caller holds: those created and those a factory returned
Checkable == Created \cup {calls[i].t : i \in {j \in 1..Len(calls) : calls[j].ok}}

\* d.isValid(v), once in a run: isValid changes nothing that a later call reads
Check ==
    /\ checked.d = 0
    /\ \E d \in Checkable, v \in Values :
          checked' = [d |-> d, v |-> v, r |-> isValid(types, d, v)]
    /\ UNCHANGED <<regVars, calls, handler, target, assigned, called, initialized, edited,
                 checkedAt, field>>

NextValid == Declare \/ Check
SpecValid == Init /\ [][NextValid]_vars

Wrappable == {d \in Created : types[d].kind \in {"ArrayOf", "TupleOf", "RecordOf", "OneOf"}}
WrapValues(d) ==
    LET arrays == {Arr(<<>>), Arr(<<Num(1)>>), Arr(<<Num(1), Str("x")>>)}
        objects == {Obj(<<>>), Obj(<<KV("a", Num(1))>>)}
    IN  IF types[d].kind \in {"ArrayOf", "TupleOf"} THEN arrays
        ELSE IF types[d].kind = "RecordOf" THEN objects
        ELSE arrays \cup objects
WriteValues ==
    {Num(1), Str("x"), Null, Arr(<<Num(1)>>), Arr(<<Str("x")>>), Obj(<<KV("a", Num(1))>>)}
\* an array is written at an index up to its length, an object at a name
WriteProps ==
    IF IsArr(target)
    THEN {IndexKeys[i] : i \in 1..(IF Len(Elems(target)) < Len(IndexKeys)
                                   THEN Len(Elems(target)) + 1 ELSE Len(IndexKeys))}
    ELSE {"a", "b", "c"}

\* proxy = d.editValue(v), for an object v
EditValue ==
    /\ handler = 0
    /\ \E d \in Wrappable : \E v \in WrapValues(d) :
          /\ handler' = d
          /\ target' = v
    /\ UNCHANGED <<regVars, calls, checked, assigned, called, initialized, edited,
                 checkedAt, field>>

\* proxy[prop] = value evaluates the set trap; a trap that returns false makes
\* the assignment a TypeError when the assigning code is strict (a module, a
\* class body), and is ignored when it is sloppy
Assignment_raises(trap, strict) == trap = "throw" \/ (trap = "false" /\ strict)

\* r is what the set trap gave
Assigned(r, prop, value, strict) ==
    /\ SetReg(r.reg)
    /\ target' = r.obj
    /\ assigned' = [n |-> assigned.n + 1, prop |-> prop, value |-> value,
                    strict |-> strict, before |-> target, trap |-> r.trap,
                    raised |-> Assignment_raises(r.trap, strict)]

Assign ==
    /\ handler # 0
    /\ assigned.n < MaxWrites
    /\ \E prop \in WriteProps, value \in WriteValues, strict \in BOOLEAN :
          Assigned(proxyHandler_set(Reg, handler, target, prop, value), prop, value, strict)
    /\ UNCHANGED <<calls, checked, handler, called, initialized, edited,
                 checkedAt, field>>

NextEdit == Declare \/ EditValue \/ Assign
SpecEdit == Init /\ [][NextEdit]_vars

(***************************************************************************)
(* Writing into nested values (SpecDeep): a value valid for an array, a    *)
(* tuple or a record is wrapped, written through the proxy, and then a     *)
(* composite element read out of the proxy is written in place.            *)
(***************************************************************************)
Composites == {d \in Created : types[d].kind \in {"ArrayOf", "TupleOf", "RecordOf"}}
DeepValues ==
    {Arr(<<>>), Arr(<<Num(1)>>), Arr(<<Num(1), Str("x")>>), Arr(<<Arr(<<Num(1)>>)>>),
     Obj(<<KV("a", Num(1))>>), Obj(<<KV("a", Arr(<<Num(1)>>))>>)}

\* proxy = d.editValue(v), for a value v that d.isValid accepts
EditValid ==
    /\ handler = 0
    /\ \E d \in Composites : \E v \in DeepValues :
          /\ isValid(types, d, v) = "true"
          /\ handler' = d
          /\ target' = v
    /\ UNCHANGED <<regVars, calls, checked, assigned, called, initialized, edited,
                   checkedAt, field>>

\* the keys written of an element e: an index up to its length, or a name
NestedProps(e) ==
    IF IsArr(e) THEN {IndexKeys[i] : i \in 1..(Len(Elems(e)) + 1)} ELSE {"a", "b"}
\* r is what the set trap of the proxy e gave: the proxy stays around its target
NestedTrap(r, e) == Trap(r.reg, r.trap, Proxied(e.pxy, r.obj))
\* e[q] = value: through the set trap when e is a proxy, on the object itself
\* when e is not wrapped
NestedSet(R, e, q, value) ==
    IF IsProxy(e) THEN NestedTrap(proxyHandler_set(R, e.pxy, e.tgt, q, value), e)
    ELSE Trap(R, "none", SetProp(e, q, value))
\* r is what the write into the element at prop gave
NestedAssigned(r, prop, q, value) ==
    /\ SetReg(r.reg)
    /\ target' = SetProp(target, prop, r.obj)
    /\ assigned' = [n |-> MaxWrites + 1, prop |-> prop, at |-> q, value |-> value,
                    before |-> target, trap |-> r.trap]

\* proxy[prop][q] = value, proxy[prop] being an array or an object; the last
\* write of a run
AssignNested ==
    /\ handler # 0
    /\ assigned.n <= MaxWrites
    /\ \E prop \in WriteProps :
          /\ IsObject(GetProp(target, prop))
          /\ \E q \in NestedProps(GetProp(target, prop)), value \in WriteValues :
                NestedAssigned(NestedSet(Reg, GetProp(target, prop), q, value), prop, q, value)
    /\ UNCHANGED <<calls, checked, handler, called, initialized, edited,
                   checkedAt, field>>

NextDeep == Declare \/ EditValid \/ Assign \/ AssignNested
SpecDeep == Init /\ [][NextDeep]_vars

(***************************************************************************)
(* The decorator typed(...typeHints) on an accessor (SpecField),           *)
(* Type.js 1703-1723: the accessor is decorated, initialized, set, and the *)
(* value read from it is written in place.                                 *)
(***************************************************************************)
MaxSets == 1
FieldHints ==
    {<<Number>>, <<Number, String>>, <<Cls("Foo")>>, <<ArrLit(4, <<Number>>)>>,
     <<Shape(7, Number)>>}
        \cup {<<T(d)>> : d \in (Len(Builtins) + 1)..Len(types)}
FieldValues ==
    {Undefined, Null, Num(1), Str("x"), Arr(<<Num(1)>>), Arr(<<Str("x")>>),
     Obj(<<KV("a", Num(1))>>)}

\* const ty = type(...typeHints), r being what type gave
Typed_accessor(r, hs) ==
    /\ SetReg(r.reg)
    /\ calls' = Append(calls, [f |-> "typed", hints |-> hs, ok |-> r.ok, t |-> r.t])
    /\ field' = IF r.ok THEN [d |-> r.t, phase |-> "decorated"] ELSE field
\* @typed(...hs) accessor x
Typed ==
    /\ field.d = 0
    /\ Len(calls) <= MaxDecls
    /\ \E hs \in FieldHints : Typed_accessor(type(Reg, hs), hs)
    /\ UNCHANGED <<checked, handler, target, assigned, called, initialized, edited, checkedAt>>

\* init(val): r is what ty.isValid(val) gives
Typed_init(ts, d, val, r) ==
    IF IsUndefined(val)
    THEN [d |-> d, phase |-> "initialized", given |-> val, stored |-> initialize(ts, d),
          sets |-> 0, writes |-> 0, set |-> [valid |-> "none"]]
    ELSE IF r = "true"
    THEN [d |-> d, phase |-> "initialized", given |-> val, stored |-> val,
          sets |-> 0, writes |-> 0, set |-> [valid |-> "none"]]
    ELSE [d |-> d, phase |-> "failed", given |-> val]
\* the accessor is initialized when an instance is constructed
FieldInit ==
    /\ field.d # 0
    /\ field.phase = "decorated"
    /\ \E val \in FieldValues :
          field' = Typed_init(types, field.d, val, isValid(types, field.d, val))
    /\ UNCHANGED <<regVars, calls, checked, handler, target, assigned, called, initialized,
                   edited, checkedAt>>

\* set(val): r is what ty.isValid(val) gave and e what ty.editValue(val) gives;
\* value.set.call(this, e) is the original setter, which stores
Typed_set(val, r, e) ==
    IF r = "true" /\ e.ok
    THEN [field EXCEPT !.stored = e.v, !.sets = @ + 1,
                       !.set = [val |-> val, valid |-> r, setter |-> TRUE, before |-> field.stored]]
    ELSE [field EXCEPT !.sets = @ + 1,
                       !.set = [val |-> val, valid |-> r, setter |-> FALSE, before |-> field.stored]]
\* this.x = val
FieldSet ==
    /\ field.d # 0
    /\ field.phase = "initialized"
    /\ field.sets < MaxSets
    /\ \E val \in FieldValues :
          field' = Typed_set(val, isValid(types, field.d, val), editValue(types, field.d, val))
    /\ UNCHANGED <<regVars, calls, checked, handler, target, assigned, called, initialized,
                   edited, checkedAt>>

\* r is what the write into the stored value gave
Typed_written(r) ==
    /\ SetReg(r.reg)
    /\ field' = [field EXCEPT !.stored = r.obj, !.writes = @ + 1]
\* this.x[prop] = value, this.x being an array or an object
FieldWrite ==
    /\ field.d # 0
    /\ field.phase = "initialized"
    /\ field.writes < MaxWrites
    /\ IsObject(field.stored)
    /\ \E prop \in NestedProps(field.stored), value \in WriteValues :
          Typed_written(NestedSet(Reg, field.stored, prop, value))
    /\ UNCHANGED <<calls, checked, handler, target, assigned, called, initialized,
                   edited, checkedAt>>

NextField == Declare \/ Typed \/ FieldInit \/ FieldSet \/ FieldWrite
SpecField == Init /\ [][NextField]_vars

(***************************************************************************)
(* Calling wrapped typed functions (SpecCall): typed-function descriptors  *)
(* are declared, then a function wrapped by one of them is called once.    *)
(***************************************************************************)
MaxArgs == 2
FuncDecls ==
    {Decl("func", hs) : hs \in
        {<<Number, Number, Ret(16, Number), String, String, Ret(17, String)>>,
         <<String, String, Ret(17, String), Number, Number, Ret(16, Number)>>,
         <<Number, Ret(16, Number), Number, Number, Ret(21, Number)>>,
         <<Number, Ret(16, Number), Number>>,
         <<Number, Ret(22, Mk("null")), Number, Ret(16, Number)>>,
         <<Number, Number>>,
         <<Number, Ret(16, Number), Number, Number>>,
         <<Ret(16, Number)>>}}
        \cup {Decl("_null", <<Number>>)}
        \cup {Decl("func", <<Number, Ret(23, Shape(24, Number)), Number, Ret(25, T(n))>>) :
                 n \in Nullables}
ArgLists == SeqsUpTo(ElemValues, MaxArgs)
ReturnValues == {Num(1), Str("x"), Null}
Receivers == {Undefined, Obj(<<>>)}
TypedFunctions == {d \in Created : types[d].kind = "TypedFunction"}

DeclareFunc == Len(calls) < MaxDecls /\ \E c \in FuncDecls : Call(c.f, c.hs, Factory(c.f, Reg, c.hs))

\* r is the outcome of the call
Invoked(d, this, args, returnValue, r) ==
    [n |-> 1, d |-> d, this |-> this, args |-> args, returned |-> returnValue,
     out |-> r.out, at |-> r.at, ran |-> r.ran, value |-> r.value]

\* d.editValue(fn).call(this, ...args), fn returning returnValue; once in a run:
\* the wrapper keeps nothing from one call to the next
Invoke ==
    /\ called.n = 0
    /\ \E d \in TypedFunctions, args \in ArgLists, this \in Receivers, returnValue \in ReturnValues :
          called' = Invoked(d, this, args, returnValue,
                            TypedFunction_call(types, types[d].overloads, this, args, returnValue))
    /\ UNCHANGED <<regVars, calls, checked, handler, target, assigned, initialized, edited,
                 checkedAt, field>>

NextCall == DeclareFunc \/ Invoke
SpecCall == Init /\ [][NextCall]_vars

(***************************************************************************)
(* Using the null descriptor (SpecNull): descriptors are declared from no  *)
(* hint or from null, then a value is checked or a wrapped function is     *)
(* called.                                                                 *)
(***************************************************************************)
NullDecls ==
    {Decl("type", <<>>),
     Decl("type", <<Mk("null")>>),
     Decl("arrayOf", <<>>),
     Decl("arrayOf", <<Number>>),
     Decl("tupleOf", <<Mk("null"), Number>>),
     Decl("tupleOf", <<Number, Mk("null")>>),
     Decl("recordOf", <<Shape(26, Mk("null"))>>),
     Decl("oneOf", <<Mk("null"), Number>>),
     Decl("oneOf", <<Number, Mk("null")>>),
     Decl("_null", <<>>),
     Decl("func", <<Number>>),
     Decl("func", <<Number, Number>>),
     Decl("func", <<Mk("null"), Ret(16, Number)>>),
     Decl("func", <<Number, Ret(16, Number)>>)}

DeclareNull == Len(calls) < MaxDecls /\ \E c \in NullDecls : Call(c.f, c.hs, Factory(c.f, Reg, c.hs))

NextNull == DeclareNull \/ Check \/ Invoke
SpecNull == Init /\ [][NextNull]_vars

(***************************************************************************)
(* Defaults (SpecInit): descriptors are declared, then one of them is      *)
(* asked for its initial value.                                            *)
(***************************************************************************)
InitDecls ==
    {Decl("type", <<Number>>),
     Decl("type", <<String>>),
     Decl("type", <<One>>),
     Decl("arrayOf", <<Number>>),
     Decl("arrayOf", <<Number, String>>),
     Decl("tupleOf", <<>>),
     Decl("tupleOf", <<Number, String>>),
     Decl("tupleOf", <<String, ArrLit(4, <<Number>>)>>),
     Decl("recordOf", <<Shape(7, Number)>>),
     Decl("recordOf", <<Shape(10, String)>>),
     Decl("recordOf", <<ObjLit(14, <<>>)>>),
     Decl("recordOf", <<ObjLit(20, <<KH("a", Number), KH("b", String)>>)>>),
     Decl("_null", <<Number>>),
     Decl("_null", <<String>>),
     Decl("oneOf", <<Number, String>>),
     Decl("oneOf", <<String, Number>>),
     Decl("oneOf", <<String, Number, One>>),
     Decl("oneOf", <<One, String>>),
     Decl("oneOf", <<Number, Number, String>>),
     Decl("oneOf", <<ArrLit(4, <<Number>>), String>>),
     Decl("func", <<Number, Ret(16, Number)>>),
     Decl("type", <<Cls("Foo")>>),
     Decl("type", <<Inst(9, "Foo")>>),
     Decl("tupleOf", <<Number, Cls("Foo")>>)}
        \cup {Decl("type", <<Mk(BuiltinMarkers[m])>>) : m \in 1..Len(BuiltinMarkers)}
        \cup {Decl("oneOf", <<String, T(u)>>) : u \in Unions}
        \cup {Decl("oneOf", <<T(u), One>>) : u \in Unions}

DeclareInit == Len(calls) < MaxDecls /\ \E c \in InitDecls : Call(c.f, c.hs, Factory(c.f, Reg, c.hs))

\* d.initialize(), once in a run: initialize changes nothing that a later call reads
Initialize ==
    /\ initialized.d = 0
    /\ \E d \in Checkable : initialized' = [d |-> d, v |-> initialize(types, d)]
    /\ UNCHANGED <<regVars, calls, checked, handler, target, assigned, called, edited,
                 checkedAt, field>>

NextInit == DeclareInit \/ Initialize
SpecInit == Init /\ [][NextInit]_vars

(***************************************************************************)
(* Wrapping any value (SpecWrap): descriptors are declared, then one of    *)
(* them is asked to wrap a value, object or not.                           *)
(***************************************************************************)
Primitives ==
    {Num(1), Str("x"), Bool(TRUE), Null, Undefined, [sym |-> "s"], [fun |-> "f"]}
EditValues == Primitives \cup {Arr(<<>>), Arr(<<Num(1)>>), Obj(<<>>), Obj(<<KV("a", Num(1))>>)}

\* r is what d.editValue(v) gave
Edited(d, v, r) == [d |-> d, v |-> v, ok |-> r.ok, r |-> r.v]

\* d.editValue(v), once in a run
Edit ==
    /\ edited.d = 0
    /\ \E d \in Checkable, v \in EditValues : edited' = Edited(d, v, editValue(types, d, v))
    /\ UNCHANGED <<regVars, calls, checked, handler, target, assigned, called, initialized,
                 checkedAt, field>>

NextWrap == Declare \/ Edit
SpecWrap == Init /\ [][NextWrap]_vars

(***************************************************************************)
(* Checking a value at a key (SpecAt): descriptors are declared, then one  *)
(* of them is asked whether a value is valid at a key.                     *)
(***************************************************************************)
AtKeys == {"0", "1", "a", "b"}
AtValues == {Num(1), Str("x"), Null, Arr(<<Num(1)>>)}

\* d.isValidAt(k, v), once in a run
CheckAt ==
    /\ checkedAt.d = 0
    /\ \E d \in Checkable, k \in AtKeys, v \in AtValues :
          checkedAt' = [d |-> d, k |-> k, v |-> v, r |-> isValidAt(types, d, k, v)]
    /\ UNCHANGED <<regVars, calls, checked, handler, target, assigned, called, initialized,
                   edited, field>>

NextAt == Declare \/ CheckAt
SpecAt == Init /\ [][NextAt]_vars

(***************************************************************************)
(* The shape a descriptor was built as, and the shape a hint denotes under *)
(* the normalization of type(): used to state the claims about sharing.    *)
(***************************************************************************)
RECURSIVE DescShape(_)
DescShape(d) ==
    LET x == types[d]
    IN  CASE x.kind = "Type" -> [base |-> x.name]
          [] x.kind = "InstanceOf" -> [instanceof |-> x.fn]
          [] x.kind = "Primitive" -> [exactly |-> x.value]
          [] x.kind = "Instance" -> [same |-> x.value]
          [] x.kind = "OneOf" -> [union |-> {DescShape(m) : m \in Members(x.subTypes)}]
          [] x.kind = "ArrayOf" -> [array |-> DescShape(x.type)]
          [] x.kind = "TupleOf" -> [tuple |-> [i \in 1..Len(x.types) |-> DescShape(x.types[i])]]
          [] x.kind = "RecordOf" ->
                [record |-> {[k |-> e.k, s |-> DescShape(e.t)] : e \in Members(x.types)}]
          [] x.kind = "Nullable" -> [nullable |-> DescShape(x.type)]
          [] x.kind = "TypedFunction" ->
                [overloads |-> {[params |-> [i \in 1..Len(o.params) |-> DescShape(o.params[i])],
                                 return |-> DescShape(o.return)] : o \in Members(x.overloads)}]

\* the union of a set of shapes: nested unions absorbed, a single member is itself
UnionShape(S) ==
    LET flat == UNION {IF "union" \in DOMAIN s THEN s.union ELSE {s} : s \in S}
    IN  IF Cardinality(flat) = 1 THEN CHOOSE s \in flat : TRUE ELSE [union |-> flat]

RECURSIVE HintShape(_)
HintShape(h) ==
    IF IsT(h) THEN DescShape(h.ty)
    ELSE IF IsMk(h) THEN DescShape(Type_known(h.mk))
    ELSE IF IsLit(h) THEN [exactly |-> h.lit]
    ELSE IF IsArrLit(h) THEN [tuple |-> [i \in 1..Len(h.tup) |-> HintShape(h.tup[i])]]
    ELSE IF IsObjLit(h) THEN [record |-> {[k |-> e.k, s |-> HintShape(e.h)] : e \in Members(h.rec)}]
    ELSE IF IsInst(h) THEN [same |-> h]
    ELSE [instanceof |-> h]

\* the shape of type(...hs)
TypeShape(hs) ==
    IF hs = <<>> THEN DescShape(Type_null)
    ELSE UnionShape({HintShape(hs[i]) : i \in 1..Len(hs)})

RECURSIVE OverloadShapes(_, _, _)
\* the overloads a flat hint list of func denotes; cur is the open parameter list
OverloadShapes(hs, i, cur) ==
    IF i > Len(hs)
    THEN (IF cur = <<>> /\ hs # <<>> /\ IsRet(hs[Len(hs)]) THEN {}
          ELSE {[params |-> cur, return |-> DescShape(Type_null)]})
    ELSE IF IsRet(hs[i])
    THEN {[params |-> cur, return |-> HintShape(hs[i].ret)]} \cup OverloadShapes(hs, i + 1, <<>>)
    ELSE OverloadShapes(hs, i + 1, Append(cur, HintShape(hs[i])))

\* the shape the hints of a recorded call describe
CallShape(c) ==
    CASE c.f \in {"type", "oneOf"} -> TypeShape(c.hints)
      [] c.f = "arrayOf" -> [array |-> TypeShape(c.hints)]
      [] c.f = "tupleOf" -> [tuple |-> [i \in 1..Len(c.hints) |-> HintShape(c.hints[i])]]
      [] c.f = "recordOf" -> HintShape(c.hints[1])
      [] c.f = "_null" ->
            [nullable |-> IF c.hints = <<>> THEN DescShape(Type_null) ELSE HintShape(c.hints[1])]
      [] c.f = "func" -> [overloads |-> OverloadShapes(c.hints, 1, <<>>)]

Done == {i \in 1..Len(calls) : calls[i].ok}

C2_SameInstanceSameShape ==
    \A i, j \in Done :
        calls[i].t = calls[j].t => CallShape(calls[i]) = CallShape(calls[j])

(***************************************************************************)
(* C3: there is one descriptor per normalized shape: two factory calls     *)
(* whose hints describe the same shape, however the hints are spelled,     *)
(* return the same descriptor instance.                                    *)
(***************************************************************************)
C3_SameShapeSameInstance ==
    \A i, j \in Done :
        CallShape(calls[i]) = CallShape(calls[j]) => calls[i].t = calls[j].t

(***************************************************************************)
(* C4: oneOf is keyed by the flattened, deduplicated set of its member     *)
(* descriptors: equal sets give the same descriptor, different sets give   *)
(* different descriptors, a set of one member gives that member.           *)
(***************************************************************************)
\* the members of a recorded oneOf call: nested unions absorbed
MemberSet(c) ==
    UNION {LET h == c.hints[n]
           IN  IF IsT(h) /\ types[h.ty].kind = "OneOf" THEN Members(types[h.ty].subTypes)
               ELSE {type(Reg, <<h>>).t} : n \in 1..Len(c.hints)}
OneOfCalls == {i \in Done : calls[i].f = "oneOf"}

C4_UnionKeyedByMemberSet ==
    /\ \A i, j \in OneOfCalls :
          (MemberSet(calls[i]) = MemberSet(calls[j])) <=> (calls[i].t = calls[j].t)
    /\ \A i \in OneOfCalls :
          IF Cardinality(MemberSet(calls[i])) = 1 THEN calls[i].t \in MemberSet(calls[i])
          ELSE /\ types[calls[i].t].kind = "OneOf"
               /\ Members(types[calls[i].t].subTypes) = MemberSet(calls[i])

\* a union, then the same set spelled in another order or through a nested union
C4_Witness ==
    \E i, j \in OneOfCalls :
        /\ i < j /\ calls[i].t = calls[j].t /\ types[calls[i].t].kind = "OneOf"
        /\ Len(calls[j].hints) = 2 /\ Len(calls[i].hints) = 3
        /\ \E n \in 1..2 : IsT(calls[j].hints[n])

(***************************************************************************)
(* C5: recordOf(shape).isValid(v) is true exactly when v is a non-array    *)
(* object, every own key of v is declared with v[key] valid under the      *)
(* key's descriptor, and every declared key is present in v unless its     *)
(* descriptor is Nullable.                                                 *)
(***************************************************************************)
C5_RecordOfValidity ==
    (checked.d # 0 /\ types[checked.d].kind = "RecordOf") =>
        LET x == types[checked.d]
            v == checked.v
        IN  (checked.r = "true") <=>
                /\ IsObject(v) /\ ~IsArr(v)
                /\ \A i \in 1..Len(Props(v)) :
                      /\ RecordOf_typeAt(x, Props(v)[i].k) # 0
                      /\ isValid(types, RecordOf_typeAt(x, Props(v)[i].k), Props(v)[i].v) = "true"
                /\ \A j \in 1..Len(x.types) :
                      HasProp(v, x.types[j].k) \/ types[x.types[j].t].kind = "Nullable"

(***************************************************************************)
(* C6: tupleOf(h1..hn).isValid(v) is true exactly when v is an array of    *)
(* length exactly n whose element at each position is valid under the      *)
(* descriptor of that position.                                            *)
(***************************************************************************)
C6_TupleOfValidity ==
    (checked.d # 0 /\ types[checked.d].kind = "TupleOf") =>
        LET x == types[checked.d]
            v == checked.v
        IN  (checked.r = "true") <=>
                /\ IsArr(v)
                /\ Len(Elems(v)) = Len(x.types)
                /\ \A i \in 1..Len(x.types) : isValid(types, x.types[i], Elems(v)[i]) = "true"

(***************************************************************************)
(* C7: arrayOf(h1..hn).isValid(v) is true exactly when v is an array, of   *)
(* any length, whose every element is valid under the union of the hints,  *)
(* and arrayOf(h1..hn) is the descriptor arrayOf(oneOf(h1..hn)).           *)
(***************************************************************************)
ArrayOfCalls == {i \in Done : calls[i].f = "arrayOf"}
C7_ArrayOfValidity ==
    \A i \in ArrayOfCalls :
        LET union == type(Reg, calls[i].hints)
        IN  /\ union.ok
            /\ ArrayOf_getFor(union.reg, <<T(union.t)>>).t = calls[i].t
            /\ checked.d = calls[i].t =>
                  ((checked.r = "true") <=>
                      /\ IsArr(checked.v)
                      /\ \A n \in 1..Len(Elems(checked.v)) :
                            isValid(types, union.t, Elems(checked.v)[n]) = "true")

\* arrayOf(Number, String) has accepted [1, "x"] and arrayOf(Number) has refused it
C7_Witness ==
    /\ checked.d # 0
    /\ checked.v = Arr(<<Num(1), Str("x")>>)
    /\ \E i, j \in ArrayOfCalls :
          /\ calls[i].hints = <<Number, String>> /\ calls[j].hints = <<Number>>
          /\ isValid(types, calls[i].t, checked.v) = "true"
          /\ checked.d = calls[j].t /\ checked.r = "false"

(***************************************************************************)
(* C8: a write of value x at key k through an ArrayOf, TupleOf or RecordOf *)
(* wrapper is committed if and only if the descriptor declares a           *)
(* sub-descriptor at k and that sub-descriptor validates x, and the value  *)
(* stored is then the sub-descriptor's editValue(x).                       *)
(***************************************************************************)
\* the sub-descriptor a collection descriptor declares at a key, 0 if none
DeclaredAt(d, k) ==
    LET x == types[d]
    IN  CASE x.kind = "ArrayOf" -> x.type
          [] x.kind = "TupleOf" -> TupleOf_typeAt(x, k)
          [] x.kind = "RecordOf" -> RecordOf_typeAt(x, k)
Written == assigned.n > 0
Committed == Written /\ assigned.trap = "true"
\* the trap has reported the violation and returned false
Rejected == Written /\ assigned.trap = "false"

C8_CommittedIffDeclaredAndValid ==
    (Written /\ types[handler].kind \in {"ArrayOf", "TupleOf", "RecordOf"}) =>
        LET sub == DeclaredAt(handler, assigned.prop)
            valid == sub # 0 /\ isValid(types, sub, assigned.value) = "true"
        IN  /\ Committed <=> valid
            /\ valid => GetProp(target, assigned.prop) = editValue(types, sub, assigned.value).v

(***************************************************************************)
(* C9: a rejected write leaves the wrapped collection exactly as it was    *)
(* before the write, for every kind of wrapper (ArrayOf, TupleOf,          *)
(* RecordOf, union): every key reads as before, no key is added, the       *)
(* length of an array is unchanged.  A write that is not committed, the    *)
(* trap having returned false or thrown, is taken as rejected.             *)
(***************************************************************************)
C9_RejectedWriteChangesNothing == (Written /\ ~Committed) => target = assigned.before

\* a union wrapper around a non-empty object that is valid for the union has
\* refused a write that would have changed the object
C9_Witness ==
    /\ Rejected
    /\ types[handler].kind = "OneOf"
    /\ target \notin {Obj(<<>>), Arr(<<>>)}
    /\ isValid(types, handler, target) = "true"
    /\ SetProp(target, assigned.prop, assigned.value) # target

(***************************************************************************)
(* C10: a rejected in-place write is not fatal: the write returns a        *)
(* failure indicator and no error is raised to the code that performed the *)
(* assignment, whenever the set trap returns false.                        *)
(***************************************************************************)
C10_RejectedWriteNeverRaises == Rejected => ~assigned.raised

(***************************************************************************)
(* C11: a write of value x at key k through a union wrapper is committed   *)
(* if and only if (a) at least one member validates the shallow copy of    *)
(* the object with k set to x and (b) no member that validates the copy    *)
(* has an ArrayOf, TupleOf or RecordOf sub-descriptor at k; when (a) fails *)
(* the write is rejected as incompatible, and when (a) holds and (b) fails *)
(* it is rejected as ambiguous, even with a single compatible member.      *)
(***************************************************************************)
\* the members of the wrapping union that validate the copy with the key set
CompatibleMembers ==
    {i \in 1..Len(types[handler].subTypes) :
        isValid(types, types[handler].subTypes[i],
                SetProp(assigned.before, assigned.prop, assigned.value)) = "true"}
\* a compatible member has a composite sub-descriptor at the key
AmbiguousMember(i) ==
    LET sub == subtypeAt(Reg, types[handler].subTypes[i], assigned.prop).t
    IN  sub # 0 /\ types[sub].kind \in {"ArrayOf", "TupleOf", "RecordOf"}
UnionWrite == Written /\ types[handler].kind = "OneOf"

C11_UnionWriteCommitted ==
    UnionWrite =>
        /\ Committed <=> (CompatibleMembers # {} /\ \A i \in CompatibleMembers : ~AmbiguousMember(i))
        /\ CompatibleMembers = {} => Rejected
        /\ (\E i \in CompatibleMembers : AmbiguousMember(i)) => Rejected

\* the same, for the writes of a value other than null
C11_UnionWriteCommitted_NotNull ==
    (UnionWrite /\ assigned.value # Null) => C11_UnionWriteCommitted

\* a write with one compatible member only has been rejected as ambiguous
C11_Witness ==
    /\ UnionWrite /\ Rejected
    /\ Cardinality(CompatibleMembers) = 1
    /\ \E i \in CompatibleMembers : AmbiguousMember(i)

(***************************************************************************)
(* C12: in a call of a wrapped typed function with an argument list of any *)
(* length, the arguments are checked left to right, keeping the overloads  *)
(* whose parameter descriptor at the position validates the argument; at   *)
(* the first position where no overload remains the call fails with        *)
(* InvalidArgument for that argument, and when overloads remain at every   *)
(* position the wrapped function is called.                                *)
(***************************************************************************)
WasCalled == called.n > 0
CalledOverloads == types[called.d].overloads
\* the overloads whose parameter descriptors validate the arguments up to position i
Surviving(i) ==
    {k \in 1..Len(CalledOverloads) :
        \A j \in 1..i :
            /\ j <= Len(CalledOverloads[k].params)
            /\ isValid(types, CalledOverloads[k].params[j], called.args[j]) = "true"}
NoneSurviving == {i \in 1..Len(called.args) : Surviving(i) = {}}

C12_ArgumentsEliminateOverloads ==
    WasCalled =>
        IF NoneSurviving = {} THEN called.ran # <<>>
        ELSE /\ called.out = "InvalidArgument"
             /\ called.at \in NoneSurviving
             /\ \A i \in NoneSurviving : called.at <= i

(***************************************************************************)
(* C13: after the wrapped function has returned, the call succeeds and     *)
(* returns the function's value unchanged if and only if an overload that  *)
(* survived the argument checks has a return descriptor validating the     *)
(* value; otherwise it fails with InvalidReturn.                           *)
(***************************************************************************)
ReturnValidated ==
    \E k \in Surviving(Len(called.args)) :
        isValid(types, CalledOverloads[k].return, called.returned) = "true"

C13_ReturnCheckedAgainstSurvivors ==
    (WasCalled /\ called.ran # <<>>) =>
        IF ReturnValidated THEN called.out = "return" /\ called.value = called.returned
        ELSE called.out = "InvalidReturn"

(***************************************************************************)
(* C14: in a wrapped call the underlying function is invoked at most once, *)
(* only after every supplied argument has passed its check, with exactly   *)
(* the original arguments and the receiver of the wrapper; when the call   *)
(* fails with InvalidArgument it is never invoked, and the return check    *)
(* happens only after it has run.                                          *)
(***************************************************************************)
C14_InvokedOnceAfterArguments ==
    WasCalled =>
        /\ Len(called.ran) <= 1
        /\ called.ran # <<>> =>
              /\ called.ran[1] = [this |-> called.this, args |-> called.args]
              /\ NoneSurviving = {}
        /\ called.out = "InvalidArgument" => called.ran = <<>>
        /\ called.out \in {"return", "InvalidReturn"} => called.ran # <<>>

\* a call has run the function with both arguments and the receiver, then refused
\* what it returned
C14_Witness ==
    /\ WasCalled /\ called.out = "InvalidReturn" /\ Len(called.args) = 2
    /\ called.this = Obj(<<>>)
    /\ called.ran = <<[this |-> called.this, args |-> called.args]>>

(***************************************************************************)
(* C15: the order of the overloads never affects the outcome of a wrapped  *)
(* call: for every permutation of the overload list the call with the same *)
(* arguments and the same returned value has the same result (success with *)
(* the same value, InvalidArgument, InvalidReturn).                        *)
(***************************************************************************)
Permuted(seq) == {[i \in 1..Len(seq) |-> seq[p[i]]] : p \in Permutations(1..Len(seq))}

C15_OverloadOrderIrrelevant ==
    WasCalled =>
        \A os \in Permuted(CalledOverloads) :
            LET r == TypedFunction_call(types, os, called.this, called.args, called.returned)
            IN  r.out = called.out /\ r.value = called.value

(***************************************************************************)
(* C16: type() with no hints returns the null descriptor, and a validity   *)
(* check that comes to the null descriptor raises: checked directly,       *)
(* as the first member of a union, as the descriptor of the first element  *)
(* of an array or tuple, of the first key of a record, under a nullable    *)
(* for a value that is not null or undefined, as the first parameter       *)
(* descriptor of a called typed function, or as the return descriptor of   *)
(* its first surviving overload, the check never gives true or false.      *)
(***************************************************************************)
\* d.isValid(value) begins with Type.null.isValid
NullChecked(d, value) ==
    LET x == types[d]
    IN  CASE x.kind = "Type" -> d = Type_null
          [] x.kind = "OneOf" -> x.subTypes[1] = Type_null
          [] x.kind = "ArrayOf" ->
                IsArr(value) /\ Elems(value) # <<>> /\ x.type = Type_null
          [] x.kind = "TupleOf" ->
                IsArr(value) /\ Elems(value) # <<>> /\ x.types # <<>> /\ x.types[1] = Type_null
          [] x.kind = "RecordOf" ->
                /\ IsObj(value) /\ ~IsArr(value) /\ ~IsNull(value)
                /\ Props(value) # <<>>
                /\ RecordOf_typeAt(x, Props(value)[1].k) = Type_null
          [] x.kind = "Nullable" ->
                ~IsNull(value) /\ ~IsUndefined(value) /\ x.type = Type_null
          [] OTHER -> FALSE
\* the call begins with Type.null.isValid on its first argument
NullParameter ==
    /\ called.args # <<>>
    /\ CalledOverloads[1].params # <<>>
    /\ CalledOverloads[1].params[1] = Type_null
\* the arguments passed and the first overload left has the null descriptor as return
NullReturn ==
    /\ called.ran # <<>>
    /\ Surviving(Len(called.args)) # {}
    /\ LET k == CHOOSE k \in Surviving(Len(called.args)) :
                    \A j \in Surviving(Len(called.args)) : k <= j
       IN  CalledOverloads[k].return = Type_null
C16_NullDescriptorAlwaysRaises ==
    /\ \A i \in Done : (calls[i].f = "type" /\ calls[i].hints = <<>>) => calls[i].t = Type_null
    /\ (checked.d # 0 /\ NullChecked(checked.d, checked.v)) => checked.r = "throw"
    /\ (WasCalled /\ (NullParameter \/ NullReturn)) => called.out = "throw"
\* type() gave the null descriptor, and either an array of it was checked on a
\* non-empty array, or a function declared without return was called and ran
C16_Witness ==
    /\ \E i \in Done : calls[i].f = "type" /\ calls[i].hints = <<>>
    /\ \/ /\ checked.d # 0
          /\ types[checked.d].kind \in {"ArrayOf", "OneOf", "RecordOf", "Nullable"}
          /\ NullChecked(checked.d, checked.v)
       \/ WasCalled /\ NullReturn

(***************************************************************************)
(* C17: recordOf(x) fails and registers nothing when x is not a plain      *)
(* object (a primitive, a constructor, an array, null, an instance of a    *)
(* class), and succeeds when x is a plain-object shape, whatever was       *)
(* registered before.                                                      *)
(***************************************************************************)
\* the step is a call of recordOf
RecordOfCalled == Len(calls') = Len(calls) + 1 /\ calls'[Len(calls')].f = "recordOf"
C17_RecordOfRefusesNonPlainShapes ==
    [][RecordOfCalled =>
          IF IsObjLit(calls'[Len(calls')].hints[1])
          THEN calls'[Len(calls')].ok
          ELSE ~calls'[Len(calls')].ok /\ types' = types /\ recordKnown' = recordKnown]_vars

(***************************************************************************)
(* C18: initialize() gives the canonical default of the descriptor a       *)
(* factory call returned: 0 for type(Number), "" for type(String), [] for  *)
(* arrayOf, the position-wise defaults for tupleOf, the key-wise defaults  *)
(* for recordOf, null for _null, whatever was declared before.             *)
(***************************************************************************)
RECURSIVE HintDefault(_), HintDefaults(_, _)
\* the default of the descriptor that a hint denotes
HintDefault(h) ==
    IF h = Number THEN Num(0)
    ELSE IF h = String THEN Str("")
    ELSE IF "mk" \in DOMAIN h THEN Type_initialValue(BuiltinNames[Type_known(h.mk)])
    ELSE IF IsInst(h) THEN h
    ELSE IF IsLit(h) THEN h.lit
    ELSE IF IsT(h) THEN initialize(types, h.ty)
    ELSE IF IsArrLit(h) THEN Arr(HintDefaults(h.tup, 1))
    ELSE IF IsObjLit(h)
    THEN Obj([i \in 1..Len(h.rec) |-> KV(h.rec[i].k, HintDefault(h.rec[i].h))])
    ELSE Undefined
HintDefaults(hs, i) ==
    IF i > Len(hs) THEN <<>> ELSE <<HintDefault(hs[i])>> \o HintDefaults(hs, i + 1)
\* the calls that returned the descriptor asked for its initial value
InitializedCalls == {i \in Done : initialized.d # 0 /\ calls[i].t = initialized.d}
C18_InitializeGivesCanonicalDefault ==
    \A i \in InitializedCalls :
        /\ calls[i].f = "type" => initialized.v = HintDefault(calls[i].hints[1])
        /\ calls[i].f = "arrayOf" => initialized.v = Arr(<<>>)
        /\ calls[i].f = "tupleOf" => initialized.v = Arr(HintDefaults(calls[i].hints, 1))
        /\ calls[i].f = "recordOf" => initialized.v = HintDefault(calls[i].hints[1])
        /\ calls[i].f = "_null" => initialized.v = Null

(***************************************************************************)
(* C19: when oneOf(h1, ..., hn) returned a union, initialize() of that     *)
(* union is the default of h1, the first member given in the call,         *)
(* whatever was declared before.                                           *)
(***************************************************************************)
C19_UnionStartsFromFirstMemberGiven ==
    \A i \in InitializedCalls :
        (calls[i].f = "oneOf" /\ types[calls[i].t].kind = "OneOf")
            => initialized.v = HintDefault(calls[i].hints[1])

(***************************************************************************)
(* C20: the descriptor returned by _null(h1, ..., hn) validates a value    *)
(* exactly when the value is null, undefined, or valid for type(h1) when   *)
(* n = 1 and for oneOf(h1, ..., hn) when n > 1.                            *)
(***************************************************************************)
\* r is what type(...hints) gives in this state: is value valid for it
NullableMember_isValid(r, value) == r.ok /\ isValid(r.reg.types, r.t, value) = "true"
\* the calls of _null with hints that returned the descriptor checked
NullableCalls ==
    {i \in Done : /\ checked.d # 0
                  /\ calls[i].f = "_null"
                  /\ calls[i].hints # <<>>
                  /\ calls[i].t = checked.d}
C20_NullableAcceptsNullOrMember ==
    \A i \in NullableCalls :
        checked.r = "true" <=>
            \/ IsNull(checked.v)
            \/ IsUndefined(checked.v)
            \/ NullableMember_isValid(type(Reg, calls[i].hints), checked.v)

(***************************************************************************)
(* C21: editValue of a union gives back the value itself, without failing  *)
(* and without a proxy, for every value that is not an object or an array: *)
(* a number, a string, a boolean, a symbol, a function, undefined, null.   *)
(***************************************************************************)
WasEdited == edited.d # 0
C21_UnionEditValueKeepsPrimitives ==
    (WasEdited /\ types[edited.d].kind = "OneOf" /\ edited.v \in Primitives)
        => edited.ok /\ edited.r = edited.v

(***************************************************************************)
(* C22: a write through the wrapper of a union leaves the union as it was: *)
(* isValid(v), isValidAt(k, v) and subtypeAt(k) of the descriptor give the *)
(* same after the write as before it, and so does a write through another  *)
(* wrapper of the same descriptor, around any object o.                    *)
(***************************************************************************)
\* the step is a write through the wrapper of a union
UnionWritten ==
    /\ handler # 0
    /\ types[handler].kind = "OneOf"
    /\ assigned'.n = assigned.n + 1
ProbeKeys == {"0", "1", "a", "b"}
ProbeValues == WriteValues \cup {Arr(<<>>), Obj(<<>>), Obj(<<KV("b", Str("x"))>>)}
ProbeTargets == {Arr(<<>>), Arr(<<Num(1)>>), Obj(<<>>), Obj(<<KV("a", Num(1))>>)}
\* an array is written at an index up to its length, an object at a name
ProbeProps(o) ==
    IF IsArr(o) THEN {IndexKeys[i] : i \in 1..(Len(Elems(o)) + 1)} ELSE {"a", "b"}
\* what a write through a wrapper of d around o gives in registries R
OtherWrite(R, d, o, k, v) ==
    [trap |-> proxyHandler_set(R, d, o, k, v).trap, obj |-> proxyHandler_set(R, d, o, k, v).obj]
C22_UnionWritesLeaveDescriptorAlone ==
    [][UnionWritten =>
          \A k \in ProbeKeys :
              /\ subtypeAt(Reg', handler, k).ok = subtypeAt(Reg, handler, k).ok
              /\ subtypeAt(Reg', handler, k).t = subtypeAt(Reg, handler, k).t
              /\ \A v \in ProbeValues :
                    /\ isValid(types', handler, v) = isValid(types, handler, v)
                    /\ isValidAt(types', handler, k, v) = isValidAt(types, handler, k, v)
                    /\ \A o \in ProbeTargets :
                          k \in ProbeProps(o) =>
                              OtherWrite(Reg', handler, o, k, v) = OtherWrite(Reg, handler, o, k, v)]_vars
\* a write through the wrapper of a union of records was committed and changed the object
C22_Witness ==
    /\ Written /\ Committed
    /\ types[handler].kind = "OneOf"
    /\ IsObj(target) /\ target # assigned.before

(***************************************************************************)
(* C23: two calls of func return the same descriptor exactly when their    *)
(* overload lists have the same length and every overload of each list has *)
(* an equal overload in the other: the same return descriptor and the same *)
(* parameter descriptors, position by position, in the same number.        *)
(***************************************************************************)
\* the overloads that the hints of call i are split into
OverloadsOf(i) ==
    TypedFunction_overloads(Reg, calls[i].hints, 1, <<Overload(<<>>, Type_null)>>).overloads
SameOverloadLists(a, b) ==
    /\ Len(a) = Len(b)
    /\ \A o \in 1..Len(a) : \E k \in 1..Len(b) : a[o] = b[k]
    /\ \A k \in 1..Len(b) : \E o \in 1..Len(a) : a[o] = b[k]
FuncCalls == {i \in Done : calls[i].f = "func"}
C23_FuncKeyedByOverloadList ==
    \A i \in FuncCalls : \A j \in FuncCalls :
        (calls[i].t = calls[j].t) <=> SameOverloadLists(OverloadsOf(i), OverloadsOf(j))

(***************************************************************************)
(* C24: isValidAt(key, value) of a union is true when isValidAt(key,       *)
(* value) of some member is true, and false otherwise; it never fails.     *)
(***************************************************************************)
WasCheckedAt == checkedAt.d # 0
\* some member of the union checked accepts the value at the key
SomeMemberValidAt ==
    \E m \in 1..Len(types[checkedAt.d].subTypes) :
        isValidAt(types, types[checkedAt.d].subTypes[m], checkedAt.k, checkedAt.v) = "true"
C24_UnionValidAtSomeMember ==
    (WasCheckedAt /\ types[checkedAt.d].kind = "OneOf")
        => checkedAt.r = (IF SomeMemberValidAt THEN "true" ELSE "false")

(***************************************************************************)
(* C25: func splits its hints at the return markers.  Overload o takes the *)
(* hints between marker o - 1 and marker o as its parameters, in order,    *)
(* and what marker o returns as its return type; the hints after the last  *)
(* marker, or all of them when there is none, make a last overload whose   *)
(* return is the null descriptor.  There are as many overloads as markers, *)
(* and one more when the list is empty or does not end with a marker.  The *)
(* descriptor registered by the first call of func holds that list.        *)
(***************************************************************************)
\* the positions of the return markers among the hints
Markers(hs) == {p \in 1..Len(hs) : IsRet(hs[p])}
\* the position of marker o, counted from 1
MarkerAt(hs, o) == CHOOSE p \in Markers(hs) : Cardinality({q \in Markers(hs) : q <= p}) = o
SplitCount(hs) ==
    Cardinality(Markers(hs)) + (IF hs = <<>> \/ ~IsRet(hs[Len(hs)]) THEN 1 ELSE 0)
SplitFirst(hs, o) == IF o = 1 THEN 1 ELSE MarkerAt(hs, o - 1) + 1
SplitLast(hs, o) == IF o <= Cardinality(Markers(hs)) THEN MarkerAt(hs, o) - 1 ELSE Len(hs)
\* the descriptor of a hint in the registries of this state
DescriptorOf(h) == type(Reg, <<h>>).t
SplitParams(hs, o) ==
    [p \in 1..(SplitLast(hs, o) - SplitFirst(hs, o) + 1) |->
        DescriptorOf(hs[SplitFirst(hs, o) + p - 1])]
SplitReturn(hs, o) ==
    IF o <= Cardinality(Markers(hs)) THEN DescriptorOf(hs[MarkerAt(hs, o)].ret) ELSE Type_null
Split(hs) == [o \in 1..SplitCount(hs) |-> Overload(SplitParams(hs, o), SplitReturn(hs, o))]
FirstFuncCall(i) == i \in FuncCalls /\ \A j \in FuncCalls : i <= j
C25_FuncSplitsHintsAtMarkers ==
    \A i \in FuncCalls :
        /\ Len(OverloadsOf(i)) = SplitCount(calls[i].hints)
        /\ OverloadsOf(i) = Split(calls[i].hints)
        /\ FirstFuncCall(i) => types[calls[i].t].overloads = Split(calls[i].hints)
\* func registered a descriptor for an overload closed by a marker and a last
\* overload without marker
C25_Witness ==
    \E i \in FuncCalls :
        /\ FirstFuncCall(i)
        /\ Cardinality(Markers(calls[i].hints)) = 1
        /\ ~IsRet(calls[i].hints[Len(calls[i].hints)])
        /\ Len(types[calls[i].t].overloads) = 2
        /\ types[calls[i].t].overloads[2] = Overload(<<Type_string>>, Type_null)

(***************************************************************************)
(* C26: a value that is valid for an array, tuple or record descriptor     *)
(* when that descriptor wraps it is still valid for it after every write   *)
(* made on the proxy and on the arrays and objects read out of the proxy.  *)
(***************************************************************************)
C26_WrappedValueStaysValid ==
    (handler # 0 /\ types[handler].kind \in {"ArrayOf", "TupleOf", "RecordOf"})
        => isValid(types, handler, target) = "true"

(***************************************************************************)
(* C27: an object behind the wrapper of a union that is valid for some     *)
(* member of the union before a write through the wrapper is valid for     *)
(* some member after it, whether the write was committed or rejected.      *)
(***************************************************************************)
ValidForSomeMember(ts, d, obj) ==
    \E m \in 1..Len(ts[d].subTypes) : isValid(ts, ts[d].subTypes[m], obj) = "true"
C27_UnionWrapperKeepsAMember ==
    [][(UnionWritten /\ ValidForSomeMember(types, handler, target))
          => ValidForSomeMember(types', handler, target')]_vars
\* an array valid for a member of the union was written through the wrapper,
\* the write was committed and changed it
C27_Witness ==
    /\ Written /\ Committed
    /\ types[handler].kind = "OneOf"
    /\ IsArr(target) /\ target # assigned.before
    /\ ValidForSomeMember(types, handler, assigned.before)

(***************************************************************************)
(* C28: the value stored in an accessor decorated with typed(hints) is     *)
(* valid for type(hints) once the accessor is initialized, and stays valid *)
(* after every set and every write made in place on the value read from    *)
(* the accessor; a set with a value that is not valid does not call the    *)
(* original setter and leaves the stored value as it was.                  *)
(***************************************************************************)
FieldInitialized == field.d # 0 /\ field.phase = "initialized"
C28_TypedAccessorStaysValid ==
    FieldInitialized =>
        /\ isValid(types, field.d, field.stored) = "true"
        /\ (field.sets > 0 /\ field.set.valid # "true") =>
               ~field.set.setter /\ (field.writes = 0 => field.stored = field.set.before)

(***************************************************************************)
(* C29: for every descriptor d other than the null descriptor, the default *)
(* value is valid for d: d.isValid(d.initialize()) is true.                *)
(***************************************************************************)
C29_DefaultIsValid ==
    (initialized.d # 0 /\ initialized.d # Type_null)
        => isValid(types, initialized.d, initialized.v) = "true"

(***************************************************************************)
(* C30: when every overload that survives the argument checks of a call    *)
(* has the null descriptor as its return descriptor (no return type was    *)
(* declared), the call raises whatever the function returns, and the       *)
(* function has run, once, with the arguments, before the call raises.     *)
(***************************************************************************)
OnlyNullReturnsSurvive ==
    /\ WasCalled
    /\ Surviving(Len(called.args)) # {}
    /\ \A k \in Surviving(Len(called.args)) : CalledOverloads[k].return = Type_null

C30_NullReturnRaisesAfterRunning ==
    OnlyNullReturnsSurvive =>
        /\ called.out # "return"
        /\ called.ran = <<[this |-> called.this, args |-> called.args]>>
====
